---- MODULE Spec2Model ----
(***************************************************************************)
(* Model of shop/algorithms/product_recommendation.py: the association-    *)
(* rule recommendation engine of the store (transaction tokens, Apriori    *)
(* mining, rule generation, product attributes, personalization boost).    *)
(*                                                                         *)
(* Numbers.  Thresholds and reported statistics are kept as integers in    *)
(* hundredths (2.0 is 200, 50.0 is 5000, a reported 66.67 is 6667).  The   *)
(* code's float quotients are modelled by exact rationals compared by      *)
(* cross-multiplication.                                                   *)
(***************************************************************************)
EXTENDS Integers, Sequences, FiniteSets, TLC

VARIABLES
    hash_seed,          \* iteration order of hashed collections in this process
    min_support,        \* self.min_support, in hundredths
    min_confidence,     \* self.min_confidence, in hundredths
    all_transactions,   \* user_transactions + product_transactions of the run
    analysis,           \* what the last run_product_recommendation_analysis built
    db,                 \* the tables: products, carts, wishlists, orders
    last_call,          \* the call served last and its arguments, none once
                        \* a view has written the tables
    recommended,        \* the list that get_recommended_products returned
    repeated,           \* the call served last repeated the one before it
    failing,            \* the data-access queries that fail for now
    raised,             \* the call served last let an exception out
    running             \* the get_recommended_products call or place_order
                        \* request that is under way, when its queries are
                        \* taken one at a time

vars == <<hash_seed, min_support, min_confidence, all_transactions, analysis,
          db, last_call, recommended, repeated, failing, raised, running>>

----------------------------------------------------------------------------
(* Bounds of the model *)

\* longest transaction list drawn as mining input
MaxTx == 3
\* most rows of the cart item table, most rows of the wishlist table
MaxCartRows == 1
MaxWishlistRows == 1
\* largest quantity of a cart item
MaxQuantity == 1

----------------------------------------------------------------------------
(* Program constants *)

\* default of max_itemset_length
MaxItemsetLength == 3
\* the percent-style cut of _to_fraction (1.0), in hundredths
PercentCut == 100
\* lift >= 1.0, in hundredths
LiftFloor == 100

----------------------------------------------------------------------------
(* Sequences, strings *)

Range(s) == {s[i] : i \in DOMAIN s}

\* e, with v evaluated first: an accumulator of a loop is a value when the
\* next round starts, as in the code, not a pending expression
Strict(v, e) == IF v = v THEN e ELSE e

Max(a, b) == IF a >= b THEN a ELSE b

\* the characters of the tokens, in code-point order
AsciiOrder == " -0123456789ABCDEFGHIJKLMNOPQRSTUVWXYZ_abcdefghijklmnopqrstuvwxyz"

CharAt(s, i) == SubSeq(s, i, i)

CharRank(c) == CHOOSE i \in 1..Len(AsciiOrder) : CharAt(AsciiOrder, i) = c

\* Python's  a < b  on str
RECURSIVE StrLessFrom(_, _, _)
StrLessFrom(a, b, i) ==
    IF i > Len(b) THEN FALSE
    ELSE IF i > Len(a) THEN TRUE
    ELSE IF CharAt(a, i) = CharAt(b, i) THEN StrLessFrom(a, b, i + 1)
    ELSE CharRank(CharAt(a, i)) < CharRank(CharAt(b, i))

StrLess(a, b) == StrLessFrom(a, b, 1)

\* Python's  pattern in text  on str
StrContains(pattern, text) ==
    \E i \in 1..(Len(text) - Len(pattern) + 1) :
        SubSeq(text, i, i + Len(pattern) - 1) = pattern

\* sorted(list(S)) for a set of str
RECURSIVE SortedTokens(_)
SortedTokens(S) ==
    IF S = {} THEN <<>>
    ELSE LET m == CHOOSE x \in S : \A y \in S : x = y \/ StrLess(x, y)
         IN  <<m>> \o SortedTokens(S \ {m})

----------------------------------------------------------------------------
(* Hashed collections.  The order in which a set or frozenset is iterated  *)
(* is fixed for one process and is not the same in every process:          *)
(* hash_seed picks it (code-point order, or the reverse).  A dict is kept  *)
(* as its keys in insertion order and its values.                          *)

EmptyDict == [keys |-> <<>>, val |-> <<>>]

Keys(d) == Range(d.keys)

Reverse(s) == [i \in 1..Len(s) |-> s[Len(s) + 1 - i]]

\* the concatenation of the lists of a list, in order
RECURSIVE ConcatRange(_, _, _)
ConcatRange(lists, lo, hi) ==
    IF lo > hi THEN <<>>
    ELSE IF lo = hi THEN lists[lo]
    ELSE LET mid == (lo + hi) \div 2
         IN  ConcatRange(lists, lo, mid) \o ConcatRange(lists, mid + 1, hi)

Flatten(lists) == ConcatRange(lists, 1, Len(lists))

\* the entries of a list, each at its first position only
FirstOccurrences(list) ==
    LET first == {j \in DOMAIN list : \A h \in 1..(j - 1) : list[h] # list[j]}
        kept == SelectSeq([j \in DOMAIN list |-> j], LAMBDA j : j \in first)
    IN  [n \in DOMAIN kept |-> list[kept[n]]]

\* the defaultdict(int) that  d[key] += 1  builds over a scan, scan[i] being
\* the keys incremented for transaction i, in order
CountScan(scan) ==
    LET sets == [i \in DOMAIN scan |-> Range(scan[i])]
        seen == [i \in DOMAIN scan |-> UNION {sets[j] : j \in 1..(i - 1)}]
        positions == UNION {{<<i, j>> : j \in DOMAIN scan[i]} : i \in DOMAIN scan}
        keys == Flatten([i \in DOMAIN scan |->
                            SelectSeq(FirstOccurrences(scan[i]),
                                      LAMBDA key : key \notin seen[i])])
    IN  Strict(seen,
               [keys |-> keys,
                val  |-> [key \in Range(keys) |->
                             Cardinality({p \in positions :
                                             scan[p[1]][p[2]] = key})]])

\* for item in <a set of tokens>; sorted is every token in code-point order
IterTokens(S, sorted, seed) ==
    LET listed == SelectSeq(sorted, LAMBDA token : token \in S)
    IN  IF seed = 0 THEN listed ELSE Reverse(listed)

\* a set of frozensets in the order of their members, the later token of
\* sorted[1..t] weighing more
RECURSIVE ByMembers(_, _, _)
ByMembers(S, sorted, t) ==
    IF S = {} THEN <<>>
    ELSE IF Cardinality(S) = 1 \/ t = 0 THEN <<CHOOSE I \in S : TRUE>>
    ELSE LET without == {I \in S : sorted[t] \notin I}
         IN  ByMembers(without, sorted, t - 1)
                 \o ByMembers(S \ without, sorted, t - 1)

\* for itemset in <a set of frozensets>
IterItemsets(S, sorted, seed) ==
    LET listed == ByMembers(S, sorted, Len(sorted))
    IN  IF seed = 0 THEN listed ELSE Reverse(listed)

\* the members of a set of naturals within lo..hi, the largest first
RECURSIVE DescendingBetween(_, _, _)
DescendingBetween(S, lo, hi) ==
    IF S = {} THEN <<>>
    ELSE IF lo = hi THEN <<lo>>
    ELSE LET mid == (lo + hi) \div 2
         IN  DescendingBetween({x \in S : x > mid}, mid + 1, hi)
                 \o DescendingBetween({x \in S : x <= mid}, lo, mid)

Descending(S) ==
    IF S = {} THEN <<>>
    ELSE DescendingBetween(S, CHOOSE x \in S : \A y \in S : x <= y,
                           CHOOSE x \in S : \A y \in S : y <= x)

----------------------------------------------------------------------------
(* Thresholds *)

\* _to_fraction: a value above 1.0 is a percentage, any other is a fraction.
\* val is in hundredths; the result is the rational num/den.
ToFraction(val) ==
    IF val > PercentCut THEN [num |-> val, den |-> 10000]
                        ELSE [num |-> val, den |-> 100]

\* math.ceil(min_support_frac * num_transactions)
MinSupportCount(frac, num_transactions) ==
    (frac.num * num_transactions + frac.den - 1) \div frac.den

\* round(num/den) of Python: to the nearest integer, a tie to the even one
RoundHalfEven(num, den) ==
    LET q == num \div den
        r == num % den
    IN  IF 2 * r < den THEN q
        ELSE IF 2 * r > den THEN q + 1
        ELSE IF q % 2 = 0 THEN q ELSE q + 1

----------------------------------------------------------------------------
(* Frequent itemsets *)

\* item_counts with  for item in transaction  (no set()): a token repeated in
\* one transaction counts twice
MutCountSingletonsOfLists(txs, sorted, seed) == CountScan(txs)

\* 1) item_counts: every transaction counts once for each of its tokens
CountSingletons(txs, sorted, seed) ==
    CountScan([i \in DOMAIN txs |-> IterTokens(Range(txs[i]), sorted, seed)])

\* L1: the tokens whose count reaches min_support_count
FrequentSingletons(item_counts, min_support_count) ==
    LET ks == SelectSeq(item_counts.keys,
                        LAMBDA x : item_counts.val[x] >= min_support_count)
    IN  [keys |-> [i \in DOMAIN ks |-> {ks[i]}],
         val  |-> [I \in {{ks[i]} : i \in DOMAIN ks} |->
                      item_counts.val[CHOOSE x \in I : TRUE]]]

\* combinations(sorted(union), m) as a set of frozensets
KSubsets(U, m) == {s \in SUBSET U : Cardinality(s) = m}

\* _generate_candidates without the  len(union) == k  test
MutGenerateCandidatesAnySize(prev_frequent, k) ==
    LET itemsets == prev_frequent.keys
        unions == {itemsets[p[1]] \cup itemsets[p[2]] :
                      p \in {q \in (DOMAIN itemsets) \X (DOMAIN itemsets) :
                                q[1] < q[2]}}
    IN  {union \in unions :
            \A subset \in KSubsets(union, k - 1) :
                subset \in DOMAIN prev_frequent.val}

\* _generate_candidates
GenerateCandidates(prev_frequent, k) ==
    LET itemsets == prev_frequent.keys
        unions == {itemsets[p[1]] \cup itemsets[p[2]] :
                      p \in {q \in (DOMAIN itemsets) \X (DOMAIN itemsets) :
                                q[1] < q[2]}}
    IN  {union \in unions :
            /\ Cardinality(union) = k
            /\ \A subset \in KSubsets(union, k - 1) :
                   subset \in DOMAIN prev_frequent.val}

\* candidate_counts: one scan of the transactions for the candidates
CountCandidates(txs, cands) ==
    CountScan([i \in DOMAIN txs |->
                  SelectSeq(cands, LAMBDA c : c \subseteq Range(txs[i]))])

\* Lk with the candidates whose count is above min_support_count only
MutFrequentOfAbove(candidate_counts, min_support_count) ==
    LET ks == SelectSeq(candidate_counts.keys,
                        LAMBDA c : candidate_counts.val[c] > min_support_count)
    IN  [keys |-> ks, val |-> [c \in Range(ks) |-> candidate_counts.val[c]]]

\* Lk: the candidates whose count reaches min_support_count
FrequentOf(candidate_counts, min_support_count) ==
    LET ks == SelectSeq(candidate_counts.keys,
                        LAMBDA c : candidate_counts.val[c] >= min_support_count)
    IN  [keys |-> ks, val |-> [c \in Range(ks) |-> candidate_counts.val[c]]]

\* 2) the level loop: frequent_itemsets[1..] from level k on
RECURSIVE MineLevels(_, _, _, _, _, _, _)
MineLevels(txs, min_support_count, max_itemset_length, freq, k, sorted, seed) ==
    IF k > max_itemset_length THEN freq
    ELSE LET prev_L == freq[k - 1]
         IN  IF prev_L.keys = <<>> THEN freq
             ELSE LET candidates == GenerateCandidates(prev_L, k)
                      counts == CountCandidates(txs,
                                    IterItemsets(candidates, sorted, seed))
                      Lk == FrequentOf(counts, min_support_count)
                  IN  IF Lk.keys = <<>> THEN freq
                      ELSE MineLevels(txs, min_support_count,
                               max_itemset_length, Append(freq, Lk), k + 1,
                               sorted, seed)

----------------------------------------------------------------------------
(* Rules *)

\* interesting_patterns of _is_interesting_product_consequent
InterestingPatterns ==
    <<"Product_", "Category_", "Best_Seller", "Popular_Item", "Tech_Product",
      "Fashion_Product", "Home_Product", "Premium_Product", "Budget_Product">>

\* _is_interesting_product_consequent
IsInterestingProductConsequent(consequent_fs) ==
    \E consequent \in consequent_fs :
        \E i \in DOMAIN InterestingPatterns :
            StrContains(InterestingPatterns[i], consequent)

\* itertools.combinations(list, r): the r-tuples in the order of the list
RECURSIVE Combinations(_, _)
Combinations(list, r) ==
    IF r = 0 THEN << <<>> >>
    ELSE IF Len(list) < r THEN <<>>
    ELSE LET with == Combinations(Tail(list), r - 1)
         IN  [i \in DOMAIN with |-> <<Head(list)>> \o with[i]]
                 \o Combinations(Tail(list), r)

\* the antecedent tuples of one itemset: r = 1 .. len - 1
RECURSIVE AntecedentsFrom(_, _)
AntecedentsFrom(itemset_list, r) ==
    IF r >= Len(itemset_list) THEN <<>>
    ELSE Combinations(itemset_list, r) \o AntecedentsFrom(itemset_list, r + 1)

\* support_counts: the counts of every level in one lookup
SupportCounts(frequent_itemsets) ==
    LET all == UNION {Keys(frequent_itemsets[k]) : k \in DOMAIN frequent_itemsets}
    IN  [I \in all |->
            LET k == CHOOSE j \in DOMAIN frequent_itemsets :
                         I \in Keys(frequent_itemsets[j])
            IN  frequent_itemsets[k].val[I]]

\* max over the consequent's tokens of item_counts.get(token, 0)
RECURSIVE MaxItemCount(_, _)
MaxItemCount(consequent_fs, item_counts) ==
    IF consequent_fs = {} THEN 0
    ELSE LET x == CHOOSE y \in consequent_fs : TRUE
             c == IF x \in DOMAIN item_counts.val THEN item_counts.val[x] ELSE 0
         IN  Max(c, MaxItemCount(consequent_fs \ {x}, item_counts))

\* the confidence test with the percentage compared to the fraction
MutConfidencePercent(itemset_count, antecedent_count, min_confidence_frac) ==
    itemset_count * 100 * min_confidence_frac.den
        >= min_confidence_frac.num * antecedent_count

\* confidence_frac >= min_confidence_frac, with confidence_frac the quotient
\* (itemset_count / n) / (antecedent_count / n)
ConfidenceReached(itemset_count, antecedent_count, min_confidence_frac) ==
    itemset_count * min_confidence_frac.den
        >= min_confidence_frac.num * antecedent_count

\* the lift test as  lift > 0
MutLiftPositive(itemset_count, num_transactions, antecedent_count, consequent_count) ==
    itemset_count * num_transactions * 100 > 0

\* lift >= 1.0, with lift = sup_xy / (antecedent support * consequent support)
LiftReached(itemset_count, num_transactions, antecedent_count, consequent_count) ==
    itemset_count * num_transactions * 100
        >= LiftFloor * antecedent_count * consequent_count

\* the lift without the division by the consequent's support
MutLiftIsConfidence(itemset_count, num_transactions, antecedent_count, consequent_count) ==
    RoundHalfEven(itemset_count * 100, antecedent_count)

\* round(lift, 2), in hundredths
LiftReported(itemset_count, num_transactions, antecedent_count, consequent_count) ==
    RoundHalfEven(itemset_count * num_transactions * 100,
                  antecedent_count * consequent_count)

\* the body of the antecedent loop: no rule, or the one rule appended
RuleOf(antecedent_fs, itemset, itemset_count, num_transactions, support_counts, item_counts, min_confidence_frac, sorted) ==
    LET consequent_fs == itemset \ antecedent_fs
        antecedent_count == IF antecedent_fs \in DOMAIN support_counts
                            THEN support_counts[antecedent_fs] ELSE 0
        consequent_count == MaxItemCount(consequent_fs, item_counts)
    IN  IF ~IsInterestingProductConsequent(consequent_fs) THEN <<>>
        ELSE IF antecedent_count = 0 THEN <<>>
        ELSE IF ~ConfidenceReached(itemset_count, antecedent_count,
                                   min_confidence_frac) THEN <<>>
        \* lift is 0 when consequent_support is 0
        ELSE IF consequent_count = 0 THEN <<>>
        ELSE IF ~LiftReached(itemset_count, num_transactions,
                             antecedent_count, consequent_count) THEN <<>>
        \* sorted(list(...))
        ELSE << [antecedent |-> SelectSeq(sorted, LAMBDA t : t \in antecedent_fs),
                 consequent |-> SelectSeq(sorted, LAMBDA t : t \in consequent_fs),
                 support    |-> RoundHalfEven(itemset_count * 10000,
                                              num_transactions),
                 confidence |-> RoundHalfEven(itemset_count * 10000,
                                              antecedent_count),
                 lift       |-> LiftReported(itemset_count, num_transactions,
                                    antecedent_count, consequent_count)] >>

\* the rules of one itemset: the loops over r and over the antecedents
RulesOfItemset(itemset, itemset_count, num_transactions, support_counts, item_counts, min_confidence_frac, sorted, seed) ==
    LET itemset_list == IterTokens(itemset, sorted, seed)
        ants == AntecedentsFrom(itemset_list, 1)
    IN  Flatten([a \in DOMAIN ants |->
                    RuleOf(Range(ants[a]), itemset, itemset_count,
                           num_transactions, support_counts, item_counts,
                           min_confidence_frac, sorted)])

\* the rules of one level, itemset by itemset in the level's dict order
RulesOfLevel(Lk, num_transactions, support_counts, item_counts, min_confidence_frac, sorted, seed) ==
    Flatten([i \in DOMAIN Lk.keys |->
                RulesOfItemset(Lk.keys[i], Lk.val[Lk.keys[i]], num_transactions,
                               support_counts, item_counts, min_confidence_frac,
                               sorted, seed)])

\* 4) the rule loop over the levels; level 1 gives no rule
GenerateRules(frequent_itemsets, num_transactions, support_counts, item_counts, min_confidence_frac, sorted, seed) ==
    Flatten([size \in DOMAIN frequent_itemsets |->
                IF size < 2 THEN <<>>
                ELSE RulesOfLevel(frequent_itemsets[size], num_transactions,
                                  support_counts, item_counts,
                                  min_confidence_frac, sorted, seed)])

\* the rules left in the order they were generated in
MutRulesAsGenerated(recommendations) == recommendations

\* recommendations.sort(key=(confidence, support), reverse=True): the rules
\* of the largest key first, the rules of one key in the order they have
SortRules(recommendations) ==
    LET confidences == Descending({recommendations[j].confidence :
                                      j \in DOMAIN recommendations})
        OfConfidence(c) ==
            SelectSeq(recommendations, LAMBDA rule : rule.confidence = c)
        BySupport(rules) ==
            LET supports == Descending({rules[j].support : j \in DOMAIN rules})
            IN  Flatten([n \in DOMAIN supports |->
                            SelectSeq(rules,
                                      LAMBDA rule : rule.support = supports[n])])
    IN  Flatten([n \in DOMAIN confidences |->
                    BySupport(OfConfidence(confidences[n]))])

\* the empty-input return as an empty list
MutNoSampleRules == <<>>

\* _get_sample_recommendation_rules
SampleRecommendationRules ==
    << [antecedent |-> <<"Category_Electronics", "Price_Medium">>,
        consequent |-> <<"Tech_Product", "Popular_Item">>,
        support |-> 1250, confidence |-> 7530, lift |-> 210],
       [antecedent |-> <<"Wishlist_Item", "Category_Books">>,
        consequent |-> <<"Budget_Product", "Category_Stationery">>,
        support |-> 870, confidence |-> 6890, lift |-> 180],
       [antecedent |-> <<"Purchased_Product", "High_Value_Purchase">>,
        consequent |-> <<"Premium_Product", "Best_Seller">>,
        support |-> 1520, confidence |-> 8210, lift |-> 230] >>

----------------------------------------------------------------------------
(* run_product_recommendation_analysis *)

TokensOf(txs) == UNION {Range(txs[i]) : i \in DOMAIN txs}

NotRun ==
    [outcome |-> "not_run", num_transactions |-> 0, min_support_count |-> 0,
     item_counts |-> EmptyDict, frequent_itemsets |-> <<>>, rules |-> <<>>]

\* The run on all_transactions = txs, with the instance's thresholds: what it
\* built (item_counts, frequent_itemsets) and the list it returns (rules).
Analyse(txs, support, confidence, max_itemset_length, seed) ==
    LET num_transactions == Len(txs)
        sorted == SortedTokens(TokensOf(txs))
        min_support_frac == ToFraction(support)
        min_confidence_frac == ToFraction(confidence)
        min_support_count == MinSupportCount(min_support_frac, num_transactions)
        item_counts == CountSingletons(txs, sorted, seed)
        L1 == FrequentSingletons(item_counts, min_support_count)
        frequent_itemsets ==
            MineLevels(txs, min_support_count, max_itemset_length, <<L1>>, 2,
                       sorted, seed)
        recommendations ==
            GenerateRules(frequent_itemsets, num_transactions,
                          SupportCounts(frequent_itemsets), item_counts,
                          min_confidence_frac, sorted, seed)
    IN  IF num_transactions = 0
        THEN [NotRun EXCEPT !.outcome = "no_transactions",
                            !.rules = SampleRecommendationRules]
        ELSE IF L1.keys = <<>>
        THEN [NotRun EXCEPT !.outcome = "no_frequent",
                            !.num_transactions = num_transactions,
                            !.min_support_count = min_support_count,
                            !.item_counts = item_counts]
        ELSE [outcome |-> "mined",
              num_transactions |-> num_transactions,
              min_support_count |-> min_support_count,
              item_counts |-> item_counts,
              frequent_itemsets |-> frequent_itemsets,
              rules |-> SortRules(recommendations)]

\* one call of run_product_recommendation_analysis on the shared instance
RunAnalysis ==
    /\ analysis' = Analyse(all_transactions, min_support, min_confidence,
                           MaxItemsetLength, hash_seed)
    /\ UNCHANGED <<hash_seed, min_support, min_confidence, all_transactions,
                   db, last_call, recommended, repeated, failing, raised,
                   running>>

----------------------------------------------------------------------------
(* str methods *)

UpperCase == "ABCDEFGHIJKLMNOPQRSTUVWXYZ"
LowerCase == "abcdefghijklmnopqrstuvwxyz"

LowerChar(c) ==
    IF \E i \in 1..Len(UpperCase) : CharAt(UpperCase, i) = c
    THEN CharAt(LowerCase, CHOOSE i \in 1..Len(UpperCase) : CharAt(UpperCase, i) = c)
    ELSE c

\* s.lower()
RECURSIVE LowerFrom(_, _)
LowerFrom(s, i) ==
    IF i > Len(s) THEN "" ELSE LowerChar(CharAt(s, i)) \o LowerFrom(s, i + 1)

Lower(s) == LowerFrom(s, 1)

\* s.replace(old, new): every occurrence of old, left to right
RECURSIVE ReplaceFrom(_, _, _, _)
ReplaceFrom(s, old, new, i) ==
    IF i > Len(s) THEN ""
    ELSE IF i + Len(old) - 1 <= Len(s) /\ SubSeq(s, i, i + Len(old) - 1) = old
    THEN new \o ReplaceFrom(s, old, new, i + Len(old))
    ELSE CharAt(s, i) \o ReplaceFrom(s, old, new, i + 1)

Replace(s, old, new) == ReplaceFrom(s, old, new, 1)

\* s.startswith(prefix)
StartsWith(s, prefix) ==
    Len(prefix) <= Len(s) /\ SubSeq(s, 1, Len(prefix)) = prefix

\* any(keyword in text for keyword in keywords)
AnyKeywordIn(keywords, text) ==
    \E i \in DOMAIN keywords : StrContains(keywords[i], text)

----------------------------------------------------------------------------
(* The tables the algorithm reads.  db.products maps a product id to its   *)
(* row; the other tables are kept in row order.  Prices and amounts are in *)
(* hundredths of the currency unit.                                        *)

\* values_list(...).distinct(): the values of a column, each once, in order
Distinct(values) == FirstOccurrences(values)

\* None where a product is expected: the product of an order line whose
\* product is gone, the product of the sample record without one
NoProduct == 0

ProductIds(d) == DOMAIN d.products

CategoryName(d, product) == d.products[product].category

\* f"Category_{category.name.replace(' ', '_')}"
CategoryToken(name) == "Category_" \o Replace(name, " ", "_")

\* f"Product_{product.id}"
ProductToken(product) == "Product_" \o ToString(product)

\* OrderItem.objects.filter(...) over all orders: the line items with their
\* order's user and status, in row order
OrderItems(d) ==
    Flatten([i \in DOMAIN d.orders |->
                [j \in DOMAIN d.orders[i].items |->
                    [user |-> d.orders[i].user, status |-> d.orders[i].status,
                     product |-> d.orders[i].items[j].product,
                     quantity |-> d.orders[i].items[j].quantity]]])

\* OrderItem.objects.filter(product=product).count()
TotalSold(d, product) ==
    Cardinality({j \in DOMAIN OrderItems(d) : OrderItems(d)[j].product = product})

----------------------------------------------------------------------------
(* _get_product_attributes *)

PriceHigh == 500000
PriceMediumHigh == 200000
PriceMedium == 100000
PriceLowMedium == 50000
HighStock == 20
MediumStock == 5
BestSellerSales == 10
PopularSales == 5

\* the price bands with their lower ends left out
MutPriceTokensAbove(price) ==
    IF price > PriceHigh THEN {"Price_High", "Premium_Product"}
    ELSE IF price > PriceMediumHigh THEN {"Price_Medium_High"}
    ELSE IF price > PriceMedium THEN {"Price_Medium"}
    ELSE IF price > PriceLowMedium THEN {"Price_Low_Medium"}
    ELSE {"Price_Low", "Budget_Product"}

PriceTokens(price) ==
    IF price >= PriceHigh THEN {"Price_High", "Premium_Product"}
    ELSE IF price >= PriceMediumHigh THEN {"Price_Medium_High"}
    ELSE IF price >= PriceMedium THEN {"Price_Medium"}
    ELSE IF price >= PriceLowMedium THEN {"Price_Low_Medium"}
    ELSE {"Price_Low", "Budget_Product"}

StockTokens(stock) ==
    IF stock >= HighStock THEN {"High_Stock"}
    ELSE IF stock >= MediumStock THEN {"Medium_Stock"}
    ELSE {"Low_Stock"}

SalesTokens(total_sold) ==
    IF total_sold >= BestSellerSales THEN {"Best_Seller", "High_Demand"}
    ELSE IF total_sold >= PopularSales THEN {"Popular_Item"}
    ELSE {}

KeywordTokens(name) ==
    LET category_name == Lower(name)
    IN  IF AnyKeywordIn(<<"electronic", "tech", "gadget">>, category_name)
        THEN {"Tech_Product"}
        ELSE IF AnyKeywordIn(<<"fashion", "clothing", "wear">>, category_name)
        THEN {"Fashion_Product"}
        ELSE IF AnyKeywordIn(<<"home", "decor", "furniture">>, category_name)
        THEN {"Home_Product"}
        ELSE {}

GetProductAttributes(d, product) ==
    {ProductToken(product), CategoryToken(CategoryName(d, product))}
        \cup PriceTokens(d.products[product].price)
        \cup StockTokens(d.products[product].stock)
        \cup SalesTokens(TotalSold(d, product))
        \cup KeywordTokens(CategoryName(d, product))

----------------------------------------------------------------------------
(* Failing queries.  A query that is in  failing  raises when it is run;   *)
(* each is named after the function that runs it.                          *)

Queries ==
    {"transactions.carts", "transactions.wishlists", "transactions.orders",
     "cooccurrence", "attributes.products",
     "products", "attributes.sold", "total_sold",
     "boost.wishlist", "boost.cart", "boost.orders",
     "sample.products", "sample.sold",
     "user.cart", "user.wishlist", "user.orders", "category"}

\* what a try block comes to: the value it returns, or an exception
Returned(value) == [raised |-> FALSE, value |-> value]

Raised == [raised |-> TRUE, value |-> <<>>]

\* try: attempt / except Exception: handler, the handler let through
MutExceptNothing(attempt, handler) == attempt

\* try: attempt / except Exception: handler
Except(attempt, handler) == IF attempt.raised THEN handler ELSE attempt

----------------------------------------------------------------------------
(* prepare_user_transactions *)

Users == <<"ada", "bob">>

\* user.first_name: ada has filled in a profile name, bob has not
FirstName(user) == IF user = "ada" THEN "Ada" ELSE ""

\* the transactions of a list that have at least two tokens
Meaningful(transactions) ==
    SelectSeq(transactions, LAMBDA transaction : Len(transaction) >= 2)

CartItemsOf(d, user) == SelectSeq(d.cart_items, LAMBDA item : item.user = user)

WishlistProductsOf(d, user) ==
    SelectSeq(d.wishlist_products, LAMBDA row : row.user = user)

\* the transaction of one cart
CartTransaction(d, user) ==
    LET cart_items == CartItemsOf(d, user)
    IN  Flatten([i \in DOMAIN cart_items |->
                    <<ProductToken(cart_items[i].product),
                      CategoryToken(CategoryName(d, cart_items[i].product))>>])
        \o (IF FirstName(user) # "" THEN <<"User_Has_Profile">> ELSE <<>>)

\* Cart.objects.filter(cartitem__isnull=False): the join returns a cart once
\* for each of its items
CartTransactions(d) ==
    Meaningful([i \in DOMAIN d.cart_items |->
                   CartTransaction(d, d.cart_items[i].user)])

\* the transaction of one wishlist
WishlistTransaction(d, user) ==
    LET wishlist_products == WishlistProductsOf(d, user)
    IN  Flatten([i \in DOMAIN wishlist_products |->
                    <<ProductToken(wishlist_products[i].product),
                      CategoryToken(CategoryName(d, wishlist_products[i].product)),
                      "Wishlist_Item">>])

\* Wishlist.objects.filter(products__isnull=False): again once for each product
WishlistTransactions(d) ==
    Meaningful([i \in DOMAIN d.wishlist_products |->
                   WishlistTransaction(d, d.wishlist_products[i].user)])

PurchaseStatuses == {"completed", "paid", "shipped"}

HighValue == 1000000
MediumValue == 500000

\* the value tiers from above their thresholds only
MutValueTokenAbove(total_amount) ==
    IF total_amount > HighValue THEN "High_Value_Purchase"
    ELSE IF total_amount > MediumValue THEN "Medium_Value_Purchase"
    ELSE "Low_Value_Purchase"

ValueToken(total_amount) ==
    IF total_amount >= HighValue THEN "High_Value_Purchase"
    ELSE IF total_amount >= MediumValue THEN "Medium_Value_Purchase"
    ELSE "Low_Value_Purchase"

\* the transaction of one order
PurchaseTransaction(d, order) ==
    Flatten([i \in DOMAIN order.items |->
                \* if item.product
                IF order.items[i].product = NoProduct THEN <<>>
                ELSE <<ProductToken(order.items[i].product),
                       CategoryToken(CategoryName(d, order.items[i].product)),
                       "Purchased_Product">>])
    \o <<ValueToken(order.total_amount)>>

\* the orders of a purchase status that have items, each once (.distinct())
PurchaseTransactions(d) ==
    LET completed_orders ==
            SelectSeq(d.orders, LAMBDA order : /\ order.status \in PurchaseStatuses
                                               /\ order.items # <<>>)
    IN  Meaningful([i \in DOMAIN completed_orders |->
                       PurchaseTransaction(d, completed_orders[i])])

----------------------------------------------------------------------------
(* _prepare_category_cooccurrence_transactions *)

\* the category tokens of a list of product ids, each category once, each
\* followed by its prefixed token
CategoryPairs(d, product_list, prefix) ==
    LET \* if category: a line without a product has no category
        with_product == SelectSeq(product_list, LAMBDA product : product # NoProduct)
        categories == Distinct([i \in DOMAIN with_product |->
                                   CategoryName(d, with_product[i])])
    IN  Flatten([i \in DOMAIN categories |->
                    <<CategoryToken(categories[i]),
                      prefix \o Replace(categories[i], " ", "_")>>])

OrderItemsOf(d, user) == SelectSeq(OrderItems(d), LAMBDA item : item.user = user)

CooccurrenceTransaction(d, user) ==
    LET cart_items == CartItemsOf(d, user)
        order_items == OrderItemsOf(d, user)
        wishlist_products == WishlistProductsOf(d, user)
    IN  CategoryPairs(d, [i \in DOMAIN cart_items |-> cart_items[i].product],
                      "User_Category_")
        \o CategoryPairs(d, [i \in DOMAIN order_items |-> order_items[i].product],
                         "Purchased_Category_")
        \o (IF user \in d.wishlists
            THEN CategoryPairs(d, [i \in DOMAIN wishlist_products |->
                                      wishlist_products[i].product],
                               "Wishlist_Category_")
            ELSE <<>>)

\* the users with a cart item or an order item, each once, in row order
ActiveUsers(d) ==
    SelectSeq(Users, LAMBDA user : \/ CartItemsOf(d, user) # <<>>
                                   \/ OrderItemsOf(d, user) # <<>>)

\* the transactions made before a query raised are returned: none, when
\* the queries of the users or of their categories raise
CooccurrenceTransactions(d) ==
    LET active_users == ActiveUsers(d)
        token_sets == [i \in DOMAIN active_users |->
                          Range(CooccurrenceTransaction(d, active_users[i]))]
        kept == SelectSeq(token_sets, LAMBDA tokens : Cardinality(tokens) >= 2)
    IN  IF "cooccurrence" \in failing THEN <<>>
        ELSE [i \in DOMAIN kept |-> SortedTokens(kept[i])]

\* _get_sample_transactions
SampleTransactions ==
    << <<"Product_123", "Category_Electronics", "Price_Medium", "Tech_Product">>,
       <<"Product_456", "Category_Books", "Price_Low", "Budget_Product">>,
       <<"Category_Electronics", "Category_Accessories", "User_Has_Profile">>,
       <<"Category_Books", "Category_Stationery", "Wishlist_Item">>,
       <<"Product_123", "Product_789", "Purchased_Product", "High_Value_Purchase">> >>

\* the sample transactions take the place of all of them when a query of
\* the carts, the wishlists or the orders raises
PrepareUserTransactions(d) ==
    IF failing \cap {"transactions.carts", "transactions.wishlists",
                     "transactions.orders"} # {}
    THEN SampleTransactions
    ELSE CartTransactions(d) \o WishlistTransactions(d)
             \o PurchaseTransactions(d) \o CooccurrenceTransactions(d)

----------------------------------------------------------------------------
(* prepare_product_attributes *)

\* the transaction of one product that has order items
AttributeTransaction(d, product) ==
    LET price == d.products[product].price
        stock == d.products[product].stock
        total_sold == TotalSold(d, product)
        category_name == Lower(CategoryName(d, product))
    IN  <<ProductToken(product), CategoryToken(CategoryName(d, product))>>
        \o (IF price >= PriceHigh THEN <<"Price_High", "Premium_Product">>
            ELSE IF price >= PriceMediumHigh THEN <<"Price_Medium_High">>
            ELSE IF price >= PriceMedium THEN <<"Price_Medium">>
            ELSE IF price >= PriceLowMedium THEN <<"Price_Low_Medium">>
            ELSE <<"Price_Low", "Budget_Product">>)
        \o (IF stock >= HighStock THEN <<"High_Stock">>
            ELSE IF stock >= MediumStock THEN <<"Medium_Stock">>
            ELSE <<"Low_Stock">>)
        \o (IF total_sold >= BestSellerSales THEN <<"Best_Seller", "High_Demand">>
            ELSE IF total_sold >= PopularSales THEN <<"Popular_Item">>
            ELSE <<>>)
        \o (IF AnyKeywordIn(<<"electronic", "tech", "gadget">>, category_name)
            THEN <<"Tech_Product">>
            ELSE IF AnyKeywordIn(<<"fashion", "clothing", "wear">>, category_name)
            THEN <<"Fashion_Product">>
            ELSE IF AnyKeywordIn(<<"home", "decor", "furniture">>, category_name)
            THEN <<"Home_Product">>
            ELSE <<>>)

\* the product ids in ascending order
RECURSIVE Ascending(_)
Ascending(ids) ==
    IF ids = {} THEN <<>>
    ELSE LET least == CHOOSE x \in ids : \A y \in ids : x <= y
         IN  <<least>> \o Ascending(ids \ {least})

\* no transaction is returned when the query of the products raises
PrepareProductAttributes(d) ==
    LET products_with_orders ==
            SelectSeq(Ascending(ProductIds(d)),
                      LAMBDA product : TotalSold(d, product) > 0)
    IN  IF "attributes.products" \in failing THEN <<>>
        ELSE [i \in DOMAIN products_with_orders |->
                 AttributeTransaction(d, products_with_orders[i])]

\* user_transactions + product_transactions
AllTransactions(d) == PrepareUserTransactions(d) \o PrepareProductAttributes(d)

----------------------------------------------------------------------------
(* _calculate_user_personalization_boost *)

WishlistBoost == 25
CartBoost == 20
FrequentBuyerBoost == 15
BuyerBoost == 10
FrequentBuyerPurchases == 3

\* OrderItem.objects.filter(order__user=user,
\*                          product__category=product.category).count()
SimilarPurchases(d, user, product) ==
    LET order_items == OrderItemsOf(d, user)
    IN  Cardinality({j \in DOMAIN order_items :
                        /\ order_items[j].product # NoProduct
                        /\ CategoryName(d, order_items[j].product)
                               = CategoryName(d, product)})

CalculateUserPersonalizationBoost(d, user, product) ==
    LET in_wishlist ==
            /\ user \in d.wishlists
            /\ \E i \in DOMAIN d.wishlist_products :
                   d.wishlist_products[i] = [user |-> user, product |-> product]
        in_cart ==
            /\ user \in d.carts
            /\ \E i \in DOMAIN d.cart_items :
                   /\ d.cart_items[i].user = user
                   /\ d.cart_items[i].product = product
        similar_purchases == SimilarPurchases(d, user, product)
        wishlist_boost == IF in_wishlist THEN WishlistBoost ELSE 0
        cart_boost == IF in_cart THEN CartBoost ELSE 0
        purchase_boost ==
            IF similar_purchases >= FrequentBuyerPurchases THEN FrequentBuyerBoost
            ELSE IF similar_purchases >= 1 THEN BuyerBoost
            ELSE 0
    IN  \* the boost reached when a query raises is the one returned
        IF "boost.wishlist" \in failing THEN 0
        ELSE IF "boost.cart" \in failing THEN wishlist_boost
        ELSE IF "boost.orders" \in failing THEN wishlist_boost + cart_boost
        ELSE wishlist_boost + cart_boost + purchase_boost

----------------------------------------------------------------------------
(* _format_attribute, _format_product_recommendation_reason *)

FormatAttribute(attribute) ==
    IF StartsWith(attribute, "Category_")
    THEN Replace(Replace(attribute, "Category_", ""), "_", " ") \o " products"
    ELSE IF StartsWith(attribute, "Product_") THEN "this product"
    ELSE IF StartsWith(attribute, "Price_")
    THEN Lower(Replace(Replace(attribute, "Price_", ""), "_", " "))
             \o " priced items"
    ELSE Lower(Replace(attribute, "_", " "))

\* ", ".join(texts)
RECURSIVE JoinComma(_)
JoinComma(texts) ==
    IF texts = <<>> THEN ""
    ELSE IF Len(texts) = 1 THEN texts[1]
    ELSE texts[1] \o ", " \o JoinComma(Tail(texts))

\* format is _format_attribute as a table over the tokens of the rules
FormatProductRecommendationReason(rule, product_attributes, format) ==
    LET antecedents == rule.antecedent
        consequents == rule.consequent
        matching == {i \in DOMAIN consequents : consequents[i] \in product_attributes}
        antecedent_text ==
            IF Len(antecedents) = 1 THEN format[antecedents[1]]
            ELSE JoinComma([i \in 1..(Len(antecedents) - 1) |->
                               format[antecedents[i]]])
                 \o " and " \o format[antecedents[Len(antecedents)]]
    IN  IF matching = {} THEN ""
        ELSE "Customers interested in " \o antecedent_text \o " also purchase "
             \o format[consequents[CHOOSE i \in matching :
                                       \A j \in matching : i <= j]]

----------------------------------------------------------------------------
(* get_recommended_products.  A rule's confidence and lift are in          *)
(* hundredths, so their product is in ten-thousandths: a score is kept as  *)
(* its whole units and its ten-thousandths, and reported, as               *)
(* round(score, 2), in hundredths.                                         *)

ScoreUnit == 10000
BestSellerScore == 30
PopularScore == 20
HighStockScore == 15
PremiumScore == 10
ReasonsCap == 5
DefaultLimit == 10

NoUser == "None"
NoCategory == "None"

\* the sum of a list of numbers
RECURSIVE SumRange(_, _, _)
SumRange(numbers, lo, hi) ==
    IF lo > hi THEN 0
    ELSE IF lo = hi THEN numbers[lo]
    ELSE LET mid == (lo + hi) \div 2
         IN  SumRange(numbers, lo, mid) + SumRange(numbers, mid + 1, hi)

\* the loop over the rules for one product: score, matching_rules and
\* recommendation_reasons when it ends
ScoreRules(rules, product_attributes, format) ==
    LET matching_rules ==
            SelectSeq(rules, LAMBDA rule :
                                 Range(rule.consequent) \cap product_attributes # {})
        rule_scores == [j \in DOMAIN matching_rules |->
                           matching_rules[j].confidence * matching_rules[j].lift]
        reasons == [j \in DOMAIN matching_rules |->
                       FormatProductRecommendationReason(matching_rules[j],
                                                         product_attributes, format)]
        units == [j \in DOMAIN rule_scores |-> rule_scores[j] \div ScoreUnit]
        parts == [j \in DOMAIN rule_scores |-> rule_scores[j] % ScoreUnit]
    IN  [units |-> SumRange(units, 1, Len(units)),
         parts |-> SumRange(parts, 1, Len(parts)),
         matching_rules_count |-> Len(matching_rules),
         recommendation_reasons |->
             FirstOccurrences(SelectSeq(reasons, LAMBDA reason : reason # ""))]

\* the last five reasons in place of the first five
MutLastReasons(reasons) == SubSeq(reasons, IF Len(reasons) < ReasonsCap THEN 1 ELSE Len(reasons) - ReasonsCap + 1, Len(reasons))

\* recommendation_reasons[:5]
FirstReasons(reasons) == SubSeq(reasons, 1, IF Len(reasons) < ReasonsCap THEN Len(reasons) ELSE ReasonsCap)

\* one round of the loop over potential_products, from the attributes that
\* _get_product_attributes has returned: the record of the product, with
\* whether its score before rounding is positive
EvaluateProductOver(product_attributes, d, rules, user, product, format, seed) ==
    LET ruled == ScoreRules(rules, product_attributes, format)
        total_sold == TotalSold(d, product)
        stock == d.products[product].stock
        sales_score == IF total_sold >= BestSellerSales THEN BestSellerScore
                       ELSE IF total_sold >= PopularSales THEN PopularScore
                       ELSE 0
        sales_reasons == IF total_sold >= BestSellerSales THEN <<"Best-selling product">>
                         ELSE IF total_sold >= PopularSales THEN <<"Popular item">>
                         ELSE <<>>
        stock_score == IF stock >= HighStock THEN HighStockScore ELSE 0
        stock_reasons == IF stock >= HighStock THEN <<"High availability">> ELSE <<>>
        premium_score == IF d.products[product].price >= PriceHigh THEN PremiumScore ELSE 0
        user_boost == IF user # NoUser
                      THEN CalculateUserPersonalizationBoost(d, user, product)
                      ELSE 0
        units == ruled.units + ruled.parts \div ScoreUnit
                 + sales_score + stock_score + premium_score + user_boost
        parts == ruled.parts % ScoreUnit
        attribute_list == SortedTokens(product_attributes)
    IN  [product |-> product,
         positive |-> units > 0 \/ parts > 0,
         score |-> units * 100 + RoundHalfEven(parts, 100),
         matching_rules_count |-> ruled.matching_rules_count,
         recommendation_reasons |->
             FirstReasons(ruled.recommendation_reasons \o sales_reasons \o stock_reasons),
         total_sold |-> total_sold,
         in_stock |-> stock,
         product_attributes |->
             IF seed = 0 THEN attribute_list ELSE Reverse(attribute_list)]

\* a sort that puts a record before the records of the same score
RECURSIVE MutInsertBeforeEqual(_, _)
MutInsertBeforeEqual(sorted, x) ==
    IF sorted = <<>> THEN <<x>>
    ELSE IF Head(sorted).score > x.score
    THEN <<Head(sorted)>> \o MutInsertBeforeEqual(Tail(sorted), x)
    ELSE <<x>> \o sorted

\* the round on the tables d: _get_product_attributes and the queries of
\* the scoring read the same tables
EvaluateProduct(d, rules, user, product, format, seed) ==
    EvaluateProductOver(GetProductAttributes(d, product), d, rules, user, product,
                        format, seed)

\* recommended_products.sort(key=lambda x: x['score'], reverse=True): stable
RECURSIVE InsertByScore(_, _)
InsertByScore(sorted, x) ==
    IF sorted = <<>> THEN <<x>>
    ELSE IF Head(sorted).score >= x.score
    THEN <<Head(sorted)>> \o InsertByScore(Tail(sorted), x)
    ELSE <<x>> \o sorted

RECURSIVE SortByScoreFrom(_, _)
SortByScoreFrom(sorted, rest) ==
    IF rest = <<>> THEN sorted
    ELSE SortByScoreFrom(InsertByScore(sorted, Head(rest)), Tail(rest))

\* the record the caller gets: the dict of the code
Reported(record) ==
    [product |-> record.product, score |-> record.score,
     matching_rules_count |-> record.matching_rules_count,
     recommendation_reasons |-> record.recommendation_reasons,
     total_sold |-> record.total_sold, in_stock |-> record.in_stock,
     product_attributes |-> record.product_attributes]

\* the products of the category when one is given, in stock or not
MutPotentialProductsAnyStock(d, category) ==
    SelectSeq(Ascending(ProductIds(d)),
              LAMBDA product :
                  category # NoCategory => CategoryName(d, product) = category)

\* Product.objects.filter(stock__gt=0), of the category when one is given
PotentialProducts(d, category) ==
    SelectSeq(Ascending(ProductIds(d)),
              LAMBDA product :
                  /\ d.products[product].stock > 0
                  /\ category # NoCategory => CategoryName(d, product) = category)

\* the list with the products that no rule matches left out
MutRecommendedProductsRuled(d, rules, user, category, limit, seed) ==
    LET potential_products == PotentialProducts(d, category)
        tokens == UNION {Range(rules[j].antecedent) \cup Range(rules[j].consequent) :
                            j \in DOMAIN rules}
        format == [t \in tokens |-> FormatAttribute(t)]
        evaluated == [i \in DOMAIN potential_products |->
                         EvaluateProduct(d, rules, user, potential_products[i],
                                         format, seed)]
        recommended_products ==
            SelectSeq(evaluated, LAMBDA record : /\ record.positive
                                                 /\ record.matching_rules_count > 0)
        ranked == SortByScoreFrom(<<>>, recommended_products)
    IN  Strict(format,
               [i \in 1..(IF Len(ranked) < limit THEN Len(ranked) ELSE limit) |->
                   Reported(ranked[i])])

\* the list get_recommended_products returns on tables d with the rules of
\* its mining run
RecommendedProducts(d, rules, user, category, limit, seed) ==
    LET potential_products == PotentialProducts(d, category)
        tokens == UNION {Range(rules[j].antecedent) \cup Range(rules[j].consequent) :
                            j \in DOMAIN rules}
        format == [t \in tokens |-> FormatAttribute(t)]
        evaluated == [i \in DOMAIN potential_products |->
                         EvaluateProduct(d, rules, user, potential_products[i],
                                         format, seed)]
        recommended_products == SelectSeq(evaluated, LAMBDA record : record.positive)
        ranked == SortByScoreFrom(<<>>, recommended_products)
    IN  Strict(format,
               [i \in 1..(IF Len(ranked) < limit THEN Len(ranked) ELSE limit) |->
                   Reported(ranked[i])])

----------------------------------------------------------------------------
(* _get_sample_recommended_products *)

SampleScore == 7850
SampleRulesCount == 3
SampleSize == 3
PlaceholderSold == 15
PlaceholderStock == 25

SampleReasons ==
    <<"Frequently purchased with similar items",
      "Popular in Electronics category",
      "High customer satisfaction">>

SampleAttributes == <<"Category_Electronics", "Price_Medium", "Tech_Product">>

SampleRecord(product, total_sold, in_stock) ==
    [product |-> product, score |-> SampleScore,
     matching_rules_count |-> SampleRulesCount,
     recommendation_reasons |-> SampleReasons,
     total_sold |-> total_sold, in_stock |-> in_stock,
     product_attributes |-> SampleAttributes]

\* the first products in stock, three at most, each with the sample score;
\* one record without a product when a query raises
SampleRecommendedProducts(d) ==
    LET in_stock == PotentialProducts(d, NoCategory)
        sample_products ==
            SubSeq(in_stock, 1, IF Len(in_stock) < SampleSize THEN Len(in_stock)
                                ELSE SampleSize)
        recommendations ==
            IF "sample.products" \in failing THEN Raised
            ELSE IF sample_products # <<>> /\ "sample.sold" \in failing THEN Raised
            ELSE Returned([i \in DOMAIN sample_products |->
                              SampleRecord(sample_products[i],
                                           TotalSold(d, sample_products[i]),
                                           d.products[sample_products[i]].stock)])
    IN  Except(recommendations,
               Returned(<<SampleRecord(NoProduct, PlaceholderSold, PlaceholderStock)>>))

----------------------------------------------------------------------------
(* get_recommended_products, with its except clause *)

\* the body of the try block: the queries of the products, of the sales
\* behind the attributes and of the sales behind the score raise
RecommendedProductsBody(d, rules, user, category, limit, seed) ==
    IF "products" \in failing THEN Raised
    ELSE IF /\ PotentialProducts(d, category) # <<>>
            /\ failing \cap {"attributes.sold", "total_sold"} # {}
    THEN Raised
    ELSE Returned(RecommendedProducts(d, rules, user, category, limit, seed))

GetRecommendedProductsCall(d, rules, user, category, limit, seed) ==
    Except(RecommendedProductsBody(d, rules, user, category, limit, seed),
           SampleRecommendedProducts(d))

----------------------------------------------------------------------------
(* get_personalized_recommendations *)

CategoryLimit == 5

\* the names of the categories of the user's cart, wishlist and orders
UserCategories(d, user) ==
    LET cart_items == CartItemsOf(d, user)
        wishlist_products == WishlistProductsOf(d, user)
        order_items == OrderItemsOf(d, user)
    IN  {CategoryName(d, cart_items[i].product) : i \in DOMAIN cart_items}
        \cup {CategoryName(d, wishlist_products[i].product) :
                  i \in DOMAIN wishlist_products}
        \* if category_name
        \cup {CategoryName(d, order_items[i].product) :
                  i \in {i \in DOMAIN order_items :
                             order_items[i].product # NoProduct}}

\* unique_recommendations: a product is kept once, at the place of its
\* first record, with the record that has the greater score
RECURSIVE UniqueRecommendations(_, _)
UniqueRecommendations(kept, rest) ==
    IF rest = <<>> THEN kept
    ELSE LET rec == Head(rest)
             same == {i \in DOMAIN kept : kept[i].product = rec.product}
             updated ==
                 IF same = {} THEN Append(kept, rec)
                 ELSE [i \in DOMAIN kept |->
                          IF i \in same /\ rec.score > kept[i].score THEN rec
                          ELSE kept[i]]
         IN  UniqueRecommendations(updated, Tail(rest))

\* the body of the try block
PersonalizedBody(d, rules, user, limit, seed) ==
    LET names == SortedTokens(UserCategories(d, user))
        user_categories == IF seed = 0 THEN names ELSE Reverse(names)
        all_recommendations ==
            Flatten([i \in DOMAIN user_categories |->
                        GetRecommendedProductsCall(d, rules, user, user_categories[i],
                                                   CategoryLimit, seed).value])
        final_recommendations ==
            SortByScoreFrom(<<>>, UniqueRecommendations(<<>>, all_recommendations))
    IN  IF failing \cap {"user.cart", "user.wishlist", "user.orders"} # {} THEN Raised
        ELSE IF user_categories # <<>> /\ "category" \in failing THEN Raised
        \* rec['product'].id  of the record without a product
        ELSE IF \E i \in DOMAIN all_recommendations :
                    all_recommendations[i].product = NoProduct
        THEN Raised
        ELSE Returned(SubSeq(final_recommendations, 1,
                             IF Len(final_recommendations) < limit
                             THEN Len(final_recommendations) ELSE limit))

GetPersonalizedRecommendationsCall(d, rules, user, limit, seed) ==
    Except(PersonalizedBody(d, rules, user, limit, seed),
           GetRecommendedProductsCall(d, rules, NoUser, NoCategory, limit, seed))

----------------------------------------------------------------------------
(* The calls of the shared instance product_recommendation_algorithm *)

EmptyShop ==
    [products |-> <<>>, carts |-> {}, cart_items |-> <<>>, wishlists |-> {},
     wishlist_products |-> <<>>, orders |-> <<>>]

NoCall == [kind |-> "none", user |-> NoUser, category |-> NoCategory, limit |-> 0]

\* no get_recommended_products call or place_order request is under way
Idle == [at |-> "idle"]

\* the mining run with results kept on the instance and returned again
\* with the new ones
MutMiningRunKeepingRules(d) ==
    LET run == Analyse(AllTransactions(d), min_support, min_confidence,
                       MaxItemsetLength, hash_seed)
    IN  [run EXCEPT !.rules = analysis.rules \o @]

\* the run of run_product_recommendation_analysis on the tables d
MiningRun(d) ==
    Analyse(AllTransactions(d), min_support, min_confidence, MaxItemsetLength,
            hash_seed)

\* what a call leaves: the tables are read, never written
Called(call, run, attempt) ==
    /\ all_transactions' = AllTransactions(db)
    /\ analysis' = run
    /\ recommended' = attempt.value
    /\ last_call' = call
    /\ repeated' = (last_call = call)
    /\ raised' = attempt.raised
    /\ UNCHANGED <<hash_seed, min_support, min_confidence, db, failing, running>>

\* run_product_recommendation_analysis()
RunProductRecommendationAnalysis ==
    Called([NoCall EXCEPT !.kind = "analysis"], MiningRun(db), Returned(<<>>))

\* get_recommended_products(user, category, limit)
GetRecommendedProducts(user, category, limit) ==
    LET run == MiningRun(db)
    IN  Called([kind |-> "recommended", user |-> user, category |-> category,
                limit |-> limit],
               run,
               GetRecommendedProductsCall(db, run.rules, user, category, limit,
                                          hash_seed))

\* get_personalized_recommendations(user, limit)
GetPersonalizedRecommendations(user, limit) ==
    LET run == MiningRun(db)
    IN  Called([kind |-> "personalized", user |-> user, category |-> NoCategory,
                limit |-> limit],
               run,
               GetPersonalizedRecommendationsCall(db, run.rules, user, limit,
                                                  hash_seed))

----------------------------------------------------------------------------
(* The views that write the tables *)

NewItemQuantity == 1

\* what a view that writes leaves: the tables d, and its redirect in place
\* of what the call before it returned
Written(d) ==
    /\ db' = d
    /\ all_transactions' = <<>>
    /\ analysis' = NotRun
    /\ recommended' = <<>>
    /\ last_call' = NoCall
    /\ repeated' = FALSE
    /\ raised' = FALSE
    /\ UNCHANGED <<hash_seed, min_support, min_confidence, failing, running>>

\* add_to_cart: the user's cart and the item are made when missing, the
\* quantity of an item that was there goes up by one; the table holds at
\* most rows items, an item at most quantity
AddToCartUpTo(user, product, rows, quantity) ==
    LET at == {i \in DOMAIN db.cart_items :
                  /\ db.cart_items[i].user = user
                  /\ db.cart_items[i].product = product}
        i == CHOOSE i \in at : TRUE
    IN  /\ product \in ProductIds(db)
        /\ IF at = {} THEN Len(db.cart_items) < rows
                      ELSE db.cart_items[i].quantity < quantity
        /\ Written([db EXCEPT
               !.carts = @ \cup {user},
               !.cart_items =
                   IF at = {}
                   THEN Append(@, [user |-> user, product |-> product,
                                   quantity |-> NewItemQuantity])
                   ELSE [@ EXCEPT ![i].quantity = @ + 1]])

AddToCart(user, product) == AddToCartUpTo(user, product, MaxCartRows, MaxQuantity)

\* add_to_wishlist: the user's wishlist is made when missing, the product
\* is added unless it is there
AddToWishlist(user, product) ==
    LET row == [user |-> user, product |-> product]
        there == \E i \in DOMAIN db.wishlist_products : db.wishlist_products[i] = row
    IN  /\ product \in ProductIds(db)
        /\ there \/ Len(db.wishlist_products) < MaxWishlistRows
        /\ Written([db EXCEPT
               !.wishlists = @ \cup {user},
               !.wishlist_products = IF there THEN @ ELSE Append(@, row)])

\* Order.objects.create(user=..., total_amount=...): the status of a new
\* order
NewOrderStatus == "pending"

MaxPlaced == 1

\* place_order: the items of the user's cart become the lines of a new
\* order and leave the cart; nothing is written without a cart or with an
\* empty one
PlaceOrder(user) ==
    LET items == CartItemsOf(db, user)
        amounts == [i \in DOMAIN items |->
                       db.products[items[i].product].price * items[i].quantity]
        order == [user |-> user, status |-> NewOrderStatus,
                  total_amount |-> SumRange(amounts, 1, Len(amounts)),
                  items |-> [i \in DOMAIN items |->
                                [product |-> items[i].product,
                                 quantity |-> items[i].quantity,
                                 price |-> db.products[items[i].product].price]]]
        placed == SelectSeq(db.orders, LAMBDA o : o.status = NewOrderStatus)
    IN  /\ user \in db.carts
        /\ items # <<>>
        /\ Len(placed) < MaxPlaced
        /\ Written([db EXCEPT
               !.orders = Append(@, order),
               !.cart_items = SelectSeq(@, LAMBDA item : item.user # user)])

----------------------------------------------------------------------------
(* get_recommended_products query by query: the call reads the tables as   *)
(* they are when each of its queries runs, and the views write in between  *)

\* the mining run and the query of the candidate products
BeginRecommended(user, category, limit) ==
    /\ running = Idle
    /\ failing = {}
    /\ running' = [at |-> "attributes",
                   call |-> [kind |-> "recommended", user |-> user,
                             category |-> category, limit |-> limit],
                   transactions |-> AllTransactions(db),
                   run |-> MiningRun(db),
                   potential_products |-> PotentialProducts(db, category),
                   round |-> 1,
                   product_attributes |-> {},
                   evaluated |-> <<>>]
    /\ UNCHANGED <<hash_seed, min_support, min_confidence, all_transactions,
                   analysis, db, last_call, recommended, repeated, failing, raised>>

\* _get_product_attributes(product) of the round, with its count of the
\* product's order lines
GetAttributesOfRound ==
    /\ running # Idle
    /\ running.at = "attributes"
    /\ running.round <= Len(running.potential_products)
    /\ running' = [running EXCEPT
                      !.at = "score",
                      !.product_attributes =
                          GetProductAttributes(
                              db, running.potential_products[running.round])]
    /\ UNCHANGED <<hash_seed, min_support, min_confidence, all_transactions,
                   analysis, db, last_call, recommended, repeated, failing, raised>>

\* the rest of the round: the rules, the count of the product's order lines
\* behind the sales boost, the other boosts, the record
ScoreOfRound ==
    /\ running # Idle
    /\ running.at = "score"
    /\ LET rules == running.run.rules
           tokens == UNION {Range(rules[j].antecedent) \cup Range(rules[j].consequent) :
                               j \in DOMAIN rules}
           format == [t \in tokens |-> FormatAttribute(t)]
           record == EvaluateProductOver(running.product_attributes, db, rules,
                                         running.call.user,
                                         running.potential_products[running.round],
                                         format, hash_seed)
       IN  running' = [running EXCEPT
                          !.at = "attributes",
                          !.round = @ + 1,
                          !.evaluated = Append(@, record)]
    /\ UNCHANGED <<hash_seed, min_support, min_confidence, all_transactions,
                   analysis, db, last_call, recommended, repeated, failing, raised>>

\* the sort and the slice after the last round: the call returns
ReturnRecommended ==
    /\ running # Idle
    /\ running.at = "attributes"
    /\ running.round > Len(running.potential_products)
    /\ LET recommended_products ==
               SelectSeq(running.evaluated, LAMBDA record : record.positive)
           ranked == SortByScoreFrom(<<>>, recommended_products)
           limit == running.call.limit
       IN  recommended' =
               [i \in 1..(IF Len(ranked) < limit THEN Len(ranked) ELSE limit) |->
                   Reported(ranked[i])]
    /\ all_transactions' = running.transactions
    /\ analysis' = running.run
    /\ last_call' = running.call
    /\ repeated' = FALSE
    /\ raised' = FALSE
    /\ running' = Idle
    /\ UNCHANGED <<hash_seed, min_support, min_confidence, db, failing>>

----------------------------------------------------------------------------
(* Mining inputs: the transaction lists and thresholds the runs are given *)

PA == "Product_A"
PB == "Product_B"
CX == "Category_X"
CY == "Category_Y"
WI == "Wishlist_Item"

\* a cart of A, a cart of B, a wishlist of A, a wishlist of B, a wishlist of
\* both (A and B are of category X here)
TxPool ==
    << <<PA, CX>>, <<PB, CX>>, <<PA, CX, WI>>, <<PB, CX, WI>>,
       <<PA, CX, WI, PB, CX, WI>> >>

\* ten transactions {Product_A, Category_X}, ten {Product_B, Category_Y}
ScenarioOne == [i \in 1..20 |-> IF i <= 10 THEN <<PA, CX>> ELSE <<PB, CY>>]

\* the lists of at most MaxTx pool transactions, carts before wishlists as
\* prepare_user_transactions appends them, and the scenario
MiningInputs ==
    {[i \in DOMAIN f |-> TxPool[f[i]]] :
        f \in UNION {{g \in [1..n -> DOMAIN TxPool] :
                         \A i \in 1..(n - 1) : g[i] <= g[i + 1]} :
                     n \in 0..MaxTx}}
    \cup {ScenarioOne}

\* 1.0, 2.0 (the default), 20, 50
SupportValues == {100, 200, 2000, 5000}

\* 1.0, 50.0 (the default), 70
ConfidenceValues == {100, 5000, 7000}

InitMine ==
    /\ hash_seed \in {0, 1}
    /\ min_support \in SupportValues
    /\ min_confidence \in ConfidenceValues
    /\ all_transactions \in MiningInputs
    /\ analysis = NotRun
    /\ db = EmptyShop
    /\ last_call = NoCall
    /\ recommended = <<>>
    /\ repeated = FALSE
    /\ failing = {}
    /\ raised = FALSE
    /\ running = Idle

NextMine == RunAnalysis

SpecMine == InitMine /\ [][NextMine]_vars

----------------------------------------------------------------------------
(* The shop of two products: a shopper fills a cart and a wishlist while   *)
(* the algorithm is called                                                  *)

\* an order of one line, as place_order writes it
OrderOf(user, status, product, price) ==
    [user |-> user, status |-> status, total_amount |-> price,
     items |-> <<[product |-> product, quantity |-> 1, price |-> price]>>]

ShopProducts ==
    (1 :> [category |-> "Electronics", price |-> 600000, stock |-> 25])
    @@ (2 :> [category |-> "Home Decor", price |-> 150000, stock |-> 3])

\* the numbers of paid orders of product 1 that ada has placed
PurchaseCounts == {0, 1, 4}

\* ada's n orders of product 1, an order of product 2 that she cancelled,
\* and an order of product 1 by bob
ShopWith(n) ==
    [EmptyShop EXCEPT
        !.products = ShopProducts,
        !.orders = [i \in 1..n |-> OrderOf("ada", "paid", 1, 600000)]
                   \o <<OrderOf("ada", "cancelled", 2, 150000),
                        OrderOf("bob", "completed", 1, 600000)>>]

Shoppers == {"ada"}

RequestUsers == {NoUser, "ada"}

InitShop ==
    /\ hash_seed \in {0, 1}
    /\ min_support = 200
    /\ min_confidence = 5000
    /\ all_transactions = <<>>
    /\ analysis = NotRun
    /\ db \in {ShopWith(n) : n \in PurchaseCounts}
    /\ last_call = NoCall
    /\ recommended = <<>>
    /\ repeated = FALSE
    /\ failing = {}
    /\ raised = FALSE
    /\ running = Idle

NextShop ==
    \/ \E user \in Shoppers, product \in ProductIds(db) : AddToCart(user, product)
    \/ \E user \in Shoppers, product \in ProductIds(db) : AddToWishlist(user, product)
    \/ RunProductRecommendationAnalysis
    \/ \E user \in RequestUsers : GetRecommendedProducts(user, NoCategory, DefaultLimit)
    \/ \E user \in Shoppers : GetPersonalizedRecommendations(user, DefaultLimit)

SpecShop == InitShop /\ [][NextShop]_vars

----------------------------------------------------------------------------
(* The catalog of one product, of any price band, stock tier, sales count  *)
(* and category name                                                        *)

PriceValues ==
    {49999, 50000, 99999, 100000, 199999, 200000, 499999, 500000, 600000}

StockValues == {1, 4, 5, 19, 20, 25}

SalesValues == {0, 4, 5, 9, 10, 12}

CategoryNames == {"Electronics", "Home Decor", "Books", "Tech Wear", "Fashion"}

\* one product and its sales, each an order of bob
CatalogOf(category, price, stock, sales) ==
    [EmptyShop EXCEPT
        !.products = (1 :> [category |-> category, price |-> price,
                            stock |-> stock]),
        !.orders = [i \in 1..sales |-> OrderOf("bob", "paid", 1, price)]]

\* the product of 6000.00, 25 in stock and 12 sales, with each of its
\* fields taking its other values in turn
Catalogs ==
    {CatalogOf("Electronics", price, stock, 12) :
        price \in PriceValues, stock \in {4, 25}}
    \cup {CatalogOf("Electronics", 600000, stock, 12) : stock \in StockValues}
    \cup {CatalogOf("Electronics", 600000, 25, sales) : sales \in SalesValues}
    \cup {CatalogOf(category, 600000, 25, 12) : category \in CategoryNames}
    \* a product that is sold out, and one with no sale, few in stock
    \cup {CatalogOf("Electronics", 600000, 0, 12), CatalogOf("Fashion", 60000, 4, 0)}

\* the instance of the module (2.0) and one made with min_support=1.0, which
\* _to_fraction reads as every transaction
CatalogSupports == {200, 100}

\* the anonymous visitor and the buyer of the catalog's orders
CatalogUsers == {NoUser, "bob"}

InitCatalog ==
    /\ hash_seed \in {0, 1}
    /\ min_support \in CatalogSupports
    /\ min_confidence = 5000
    /\ all_transactions = <<>>
    /\ analysis = NotRun
    /\ db \in Catalogs
    /\ last_call = NoCall
    /\ recommended = <<>>
    /\ repeated = FALSE
    /\ failing = {}
    /\ raised = FALSE
    /\ running = Idle

NextCatalog ==
    \/ RunProductRecommendationAnalysis
    \/ \E user \in CatalogUsers :
           GetRecommendedProducts(user, NoCategory, DefaultLimit)

SpecCatalog == InitCatalog /\ [][NextCatalog]_vars

----------------------------------------------------------------------------
(* The purchase transactions: one product, and one order of bob of each    *)
(* status, with a total on either side of the value thresholds, and with   *)
(* lines whose product is there or gone                                    *)

OrderStatuses == {"pending", "paid", "shipped", "completed", "cancelled"}

\* 4999.99, 5000.00, 9999.99, 10000.00
OrderTotals == {499999, 500000, 999999, 1000000}

\* the products of the lines of the order
OrderLines == {<<1>>, <<NoProduct>>, <<1, NoProduct>>}

OrderWith(status, total_amount, products) ==
    [user |-> "bob", status |-> status, total_amount |-> total_amount,
     items |-> [i \in DOMAIN products |->
                   [product |-> products[i], quantity |-> 1, price |-> 600000]]]

InitOrders ==
    /\ hash_seed \in {0, 1}
    /\ min_support = 200
    /\ min_confidence = 5000
    /\ all_transactions = <<>>
    /\ analysis = NotRun
    /\ db \in {[CatalogOf("Electronics", 600000, 25, 0) EXCEPT
                    !.orders = <<OrderWith(status, total_amount, products)>>] :
                   status \in OrderStatuses, total_amount \in OrderTotals,
                   products \in OrderLines}
    /\ last_call = NoCall
    /\ recommended = <<>>
    /\ repeated = FALSE
    /\ failing = {}
    /\ raised = FALSE
    /\ running = Idle

NextOrders == RunProductRecommendationAnalysis

SpecOrders == InitOrders /\ [][NextOrders]_vars

----------------------------------------------------------------------------
(* A call while orders are placed: one product, its sales one short of a   *)
(* sales step, and ada who puts it in her cart and orders it               *)

SalesBelowStep == {4, 9}

InitInterleaved ==
    /\ hash_seed \in {0, 1}
    /\ min_support = 200
    /\ min_confidence = 5000
    /\ all_transactions = <<>>
    /\ analysis = NotRun
    /\ db \in {CatalogOf("Electronics", 600000, 25, sales) : sales \in SalesBelowStep}
    /\ last_call = NoCall
    /\ recommended = <<>>
    /\ repeated = FALSE
    /\ failing = {}
    /\ raised = FALSE
    /\ running = Idle

NextInterleaved ==
    \/ BeginRecommended(NoUser, NoCategory, DefaultLimit)
    \/ GetAttributesOfRound
    \/ ScoreOfRound
    \/ ReturnRecommended
    \/ AddToCart("ada", 1)
    \/ PlaceOrder("ada")

SpecInterleaved == InitInterleaved /\ [][NextInterleaved]_vars

----------------------------------------------------------------------------
(* place_order statement by statement, with add_to_cart of the same user   *)
(* served by another request in between                                    *)

MaxCheckoutRows == 2
MaxCheckoutQuantity == 2

\* a view has written the tables d while the request of running goes on to
\* position next
WrittenWhile(d, next) ==
    /\ db' = d
    /\ all_transactions' = <<>>
    /\ analysis' = NotRun
    /\ recommended' = <<>>
    /\ last_call' = NoCall
    /\ repeated' = FALSE
    /\ raised' = FALSE
    /\ running' = next
    /\ UNCHANGED <<hash_seed, min_support, min_confidence, failing>>

\* cart = get_object_or_404(...); items = CartItem.objects.filter(cart=cart);
\* "if not items" reads the rows, and the queryset keeps them
PlaceOrderItems(user) ==
    /\ running = Idle
    /\ user \in db.carts
    /\ Len(SelectSeq(db.orders, LAMBDA o : o.status = NewOrderStatus)) < MaxPlaced
    /\ running' = [at |-> "place_order.items", user |-> user,
                   items |-> CartItemsOf(db, user)]
    /\ UNCHANGED <<hash_seed, min_support, min_confidence, all_transactions,
                   analysis, db, last_call, recommended, repeated, failing, raised>>

\* the rows read were none: "Your cart is empty", redirect
PlaceOrderEmpty ==
    /\ running # Idle
    /\ running.at = "place_order.items"
    /\ running.items = <<>>
    /\ running' = Idle
    /\ UNCHANGED <<hash_seed, min_support, min_confidence, all_transactions,
                   analysis, db, last_call, recommended, repeated, failing, raised>>

\* total, Order.objects.create and OrderItem.objects.create for each of the
\* rows read
PlaceOrderCreate ==
    /\ running # Idle
    /\ running.at = "place_order.items"
    /\ running.items # <<>>
    /\ LET items == running.items
           amounts == [i \in DOMAIN items |->
                          db.products[items[i].product].price * items[i].quantity]
           order == [user |-> running.user, status |-> NewOrderStatus,
                     total_amount |-> SumRange(amounts, 1, Len(amounts)),
                     items |-> [i \in DOMAIN items |->
                                   [product |-> items[i].product,
                                    quantity |-> items[i].quantity,
                                    price |-> db.products[items[i].product].price]]]
       IN  WrittenWhile([db EXCEPT !.orders = Append(@, order)],
                        [at |-> "place_order.delete", user |-> running.user,
                         items |-> items, order |-> Len(db.orders) + 1])

\* items.delete(): a DELETE of the rows the filter matches now
PlaceOrderDelete ==
    /\ running # Idle
    /\ running.at = "place_order.delete"
    /\ WrittenWhile([db EXCEPT
                        !.cart_items =
                            SelectSeq(@, LAMBDA item : item.user # running.user)],
                    Idle)

\* ada without a cart, with an empty cart, with product 1 in her cart
CheckoutShops ==
    {[EmptyShop EXCEPT !.products = ShopProducts],
     [EmptyShop EXCEPT !.products = ShopProducts, !.carts = {"ada"}],
     [EmptyShop EXCEPT !.products = ShopProducts, !.carts = {"ada"},
                       !.cart_items = <<[user |-> "ada", product |-> 1,
                                         quantity |-> NewItemQuantity]>>]}

InitCheckout ==
    /\ hash_seed \in {0, 1}
    /\ min_support = 200
    /\ min_confidence = 5000
    /\ all_transactions = <<>>
    /\ analysis = NotRun
    /\ db \in CheckoutShops
    /\ last_call = NoCall
    /\ recommended = <<>>
    /\ repeated = FALSE
    /\ failing = {}
    /\ raised = FALSE
    /\ running = Idle

NextCheckout ==
    \/ \E product \in ProductIds(db) :
           AddToCartUpTo("ada", product, MaxCheckoutRows, MaxCheckoutQuantity)
    \/ PlaceOrderItems("ada")
    \/ PlaceOrderEmpty
    \/ PlaceOrderCreate
    \/ PlaceOrderDelete

SpecCheckout == InitCheckout /\ [][NextCheckout]_vars

-----------------------------------------------------------------------------
(* The calls while queries fail: a shop with three categories, ada's cart  *)
(* and her order of a title that is sold out, and the queries that fail    *)

OutageProducts ==
    (1 :> [category |-> "Electronics", price |-> 600000, stock |-> 25])
    @@ (2 :> [category |-> "Books", price |-> 60000, stock |-> 25])
    @@ (3 :> [category |-> "Books", price |-> 60000, stock |-> 25])
    @@ (4 :> [category |-> "Books", price |-> 60000, stock |-> 0])
    @@ (5 :> [category |-> "Stationery", price |-> 30000, stock |-> 8])

OutageShop ==
    [EmptyShop EXCEPT
        !.products = OutageProducts,
        !.carts = {"ada"},
        !.cart_items = <<[user |-> "ada", product |-> 1, quantity |-> 1]>>,
        !.orders = <<OrderOf("ada", "paid", 4, 60000)>>]

\* no query fails, one does, the products and one more do, all do
FailureCases ==
    {{}} \cup {{query} : query \in Queries}
        \cup {{"products", "sample.sold"}, {"products", "user.orders"}, Queries}

Limits == {2, 10}

RequestCategories == {"Books", "Stationery"}

InitOutage ==
    /\ hash_seed \in {0, 1}
    /\ min_support = 200
    /\ min_confidence = 5000
    /\ all_transactions = <<>>
    /\ analysis = NotRun
    /\ db = OutageShop
    /\ last_call = NoCall
    /\ recommended = <<>>
    /\ repeated = FALSE
    /\ failing \in FailureCases
    /\ raised = FALSE
    /\ running = Idle

NextOutage ==
    \/ RunProductRecommendationAnalysis
    \/ \E limit \in Limits : GetRecommendedProducts(NoUser, NoCategory, limit)
    \/ \E category \in RequestCategories :
           GetRecommendedProducts("ada", category, DefaultLimit)
    \/ \E limit \in Limits : GetPersonalizedRecommendations("ada", limit)

SpecOutage == InitOutage /\ [][NextOutage]_vars

----------------------------------------------------------------------------
(* Properties of the mining run *)

\* the transactions of the run that contain itemset I, each taken as a set
Containing(I) ==
    {i \in DOMAIN all_transactions : I \subseteq Range(all_transactions[i])}

SupportOf(I) == Cardinality(Containing(I))

Levels == analysis.frequent_itemsets

RuleAt(j) ==
    LET r == analysis.rules[j]
    IN  [antecedent |-> Range(r.antecedent), consequent |-> Range(r.consequent),
         joint |-> SupportOf(Range(r.antecedent) \cup Range(r.consequent)),
         base |-> SupportOf(Range(r.antecedent)),
         support |-> r.support, confidence |-> r.confidence, lift |-> r.lift]

\* C1. Support consistency: at every level of the mining result, the stored
\* count of an itemset is exactly the number of input transactions, taken
\* as token sets, that contain it.
SupportConsistency ==
    \A k \in DOMAIN Levels :
        /\ DOMAIN Levels[k].val = Keys(Levels[k])
        /\ \A I \in Keys(Levels[k]) : Levels[k].val[I] = SupportOf(I)

\* a mined result with a second level, an itemset counted twice or more, and
\* a transaction that repeats a token
WitnessSupportConsistency ==
    /\ analysis.outcome = "mined"
    /\ Len(Levels) >= 2
    /\ \E I \in Keys(Levels[2]) : Levels[2].val[I] >= 2
    /\ \E i \in DOMAIN all_transactions :
           Len(all_transactions[i]) > Cardinality(Range(all_transactions[i]))

\* C2. Monotonicity: a frequent itemset of level k >= 2 has k tokens, and
\* each of its (k-1)-element subsets is a frequent itemset of level k-1.
Monotonicity ==
    \A k \in DOMAIN Levels :
        k >= 2 =>
            \A I \in Keys(Levels[k]) :
                /\ Cardinality(I) = k
                /\ \A S \in KSubsets(I, k - 1) : S \in Keys(Levels[k - 1])

\* a mined result with a third level
WitnessMonotonicity ==
    /\ analysis.outcome = "mined"
    /\ Len(Levels) = 3
    /\ Keys(Levels[3]) # {}

LiftFloorHolds ==
    /\ \A j \in DOMAIN analysis.rules : analysis.rules[j].lift >= 100
    /\ analysis.outcome = "mined" =>
           \A j \in DOMAIN analysis.rules :
               LET r == RuleAt(j)
               IN  \A x \in r.consequent :
                       r.joint * analysis.num_transactions
                           >= r.base * SupportOf({x})

\* a mined result that kept a rule and left out a split of a frequent pair
\* that reaches the confidence and has a lift below 1
WitnessLiftFloor ==
    /\ analysis.outcome = "mined"
    /\ analysis.rules # <<>>
    /\ Len(Levels) >= 2
    /\ \E I \in Keys(Levels[2]) : \E x \in I :
           LET frac == ToFraction(min_confidence)
               y == CHOOSE z \in I : z # x
           IN  /\ IsInterestingProductConsequent({y})
               /\ SupportOf(I) * frac.den >= frac.num * SupportOf({x})
               /\ SupportOf(I) * analysis.num_transactions
                      < SupportOf({x}) * SupportOf({y})
               /\ \A j \in DOMAIN analysis.rules :
                      RuleAt(j).antecedent # {x} \/ RuleAt(j).consequent # {y}

\* the number of frequent itemsets a result holds at level k
LevelSize(result, k) ==
    IF k \in DOMAIN result.frequent_itemsets
    THEN Cardinality(Keys(result.frequent_itemsets[k]))
    ELSE 0

\* the run of this state with min_support b in place of the instance's value
WithSupport(b) ==
    Analyse(all_transactions, b, min_confidence, MaxItemsetLength, hash_seed)

\* the run of this state with min_confidence b in place of the instance's value
WithConfidence(b) ==
    Analyse(all_transactions, min_support, b, MaxItemsetLength, hash_seed)

\* C5. Monotone threshold effect: for the transactions of the run, a larger
\* accepted min_support value gives no more frequent itemsets at any level,
\* and a larger accepted min_confidence value gives no more rules.
ThresholdMonotone ==
    analysis.outcome # "not_run" =>
        /\ \A b \in SupportValues :
               b > min_support =>
                   \A k \in 1..MaxItemsetLength :
                       LevelSize(WithSupport(b), k) <= LevelSize(analysis, k)
        /\ \A b \in ConfidenceValues :
               b > min_confidence =>
                   Len(WithConfidence(b).rules) <= Len(analysis.rules)

ScenarioOneRun ==
    /\ all_transactions = ScenarioOne
    /\ min_support = 2000
    /\ min_confidence = 5000
    /\ analysis.outcome # "not_run"

\* C7. Scenario 1: ten transactions {Product_A, Category_X} and ten
\* {Product_B, Category_Y} at min_support 20% and min_confidence 50% give
\* exactly the frequent pairs {Product_A, Category_X} and {Product_B,
\* Category_Y} and exactly the four single-token rules between the members
\* of each pair, each with support 50%, confidence 100% and lift 2.0.
ScenarioOneResult ==
    ScenarioOneRun =>
        /\ analysis.outcome = "mined"
        /\ Keys(Levels[2]) = {{PA, CX}, {PB, CY}}
        /\ \A k \in DOMAIN Levels : k > 2 => Keys(Levels[k]) = {}
        /\ Len(analysis.rules) = 4
        /\ {<<analysis.rules[j].antecedent, analysis.rules[j].consequent>> :
               j \in DOMAIN analysis.rules}
             = {<<(<<CX>>), (<<PA>>)>>, <<(<<PA>>), (<<CX>>)>>,
                <<(<<CY>>), (<<PB>>)>>, <<(<<PB>>), (<<CY>>)>>}
        /\ \A j \in DOMAIN analysis.rules :
               /\ analysis.rules[j].support = 5000
               /\ analysis.rules[j].confidence = 10000
               /\ analysis.rules[j].lift = 200

\* the run of Scenario 1 has returned rules
WitnessScenarioOne ==
    /\ ScenarioOneRun
    /\ analysis.rules # <<>>

----------------------------------------------------------------------------
(* Properties of the calls *)

\* C8: on unchanged tables, with the same thresholds, a call of the
\* algorithm that follows another returns the frequent itemsets and the rule
\* list the one before it was built on, and a get_recommended_products call
\* that repeats the one before it returns the same products with the same
\* scores.  (A view that writes the tables leaves last_call at none, so two
\* calls in a row are two calls on the same tables.)
SameCallStep ==
    /\ (last_call.kind # "none" /\ last_call'.kind # "none")
           => /\ analysis'.frequent_itemsets = analysis.frequent_itemsets
              /\ analysis'.rules = analysis.rules
              /\ all_transactions' = all_transactions
    /\ (last_call.kind = "recommended" /\ last_call' = last_call)
           => recommended' = recommended

----------------------------------------------------------------------------
(* Properties of the product attributes *)

KeywordTags == {"Tech_Product", "Fashion_Product", "Home_Product"}

\* the Category_<name> token of each category name of the catalogs
CategoryTokenOfName ==
    [name \in CategoryNames |->
        CASE name = "Electronics" -> "Category_Electronics"
          [] name = "Home Decor" -> "Category_Home_Decor"
          [] name = "Books" -> "Category_Books"
          [] name = "Tech Wear" -> "Category_Tech_Wear"
          [] name = "Fashion" -> "Category_Fashion"]

\* the order lines of a product
SalesOf(product) ==
    Cardinality({ij \in UNION {{<<i, j>> : j \in DOMAIN db.orders[i].items} :
                                  i \in DOMAIN db.orders} :
                    db.orders[ij[1]].items[ij[2]].product = product})

\* the attribute set of a product of the catalog, keyword tag aside
AttributesStated(product) ==
    LET row == db.products[product]
        sales == SalesOf(product)
    IN  {IF product = 1 THEN "Product_1" ELSE "Product_2",
         CategoryTokenOfName[row.category]}
        \cup (IF row.price >= 500000 THEN {"Price_High", "Premium_Product"}
              ELSE IF row.price >= 200000 THEN {"Price_Medium_High"}
              ELSE IF row.price >= 100000 THEN {"Price_Medium"}
              ELSE IF row.price >= 50000 THEN {"Price_Low_Medium"}
              ELSE {"Price_Low", "Budget_Product"})
        \cup (IF row.stock >= 20 THEN {"High_Stock"}
              ELSE IF row.stock >= 5 THEN {"Medium_Stock"}
              ELSE {"Low_Stock"})
        \cup (IF sales >= 10 THEN {"Best_Seller", "High_Demand"}
              ELSE IF sales >= 5 THEN {"Popular_Item"}
              ELSE {})

AttributesAsStated(product, attributes) ==
    /\ attributes \ KeywordTags = AttributesStated(product)
    /\ Cardinality(attributes \cap KeywordTags) <= 1

\* C9: the attribute set of a product, as _get_product_attributes returns it
\* and as get_recommended_products reports it, is Product_<id>,
\* Category_<name>, the tokens of the one price band the price is in, the
\* token of the one stock tier, the sales-velocity tokens of the number of
\* its order lines, and at most one category-keyword tag.
AttributeSetExact ==
    /\ \A product \in ProductIds(db) :
           AttributesAsStated(product, GetProductAttributes(db, product))
    /\ \A i \in DOMAIN recommended :
           AttributesAsStated(recommended[i].product,
                              Range(recommended[i].product_attributes))

\* the product of 6000.00 with 25 in stock and 12 sales has been recommended
\* with the seven tokens of the scenario and its keyword tag
WitnessAttributeSet ==
    /\ last_call.kind = "recommended"
    /\ Len(recommended) = 1
    /\ db.products[1].price = 600000
    /\ db.products[1].stock = 25
    /\ SalesOf(1) = 12
    /\ db.products[1].category = "Electronics"
    /\ Range(recommended[1].product_attributes)
           = {"Product_1", "Category_Electronics", "Price_High",
              "Premium_Product", "High_Stock", "Best_Seller", "High_Demand",
              "Tech_Product"}

----------------------------------------------------------------------------
(* Properties of the personalization boost *)

\* the order lines of the user in the category of the product, in the orders
\* that are purchases
PriorPurchases(user, product) ==
    Cardinality({ij \in UNION {{<<i, j>> : j \in DOMAIN db.orders[i].items} :
                                  i \in DOMAIN db.orders} :
                    /\ db.orders[ij[1]].user = user
                    /\ db.orders[ij[1]].status \in {"completed", "paid", "shipped"}
                    /\ db.products[db.orders[ij[1]].items[ij[2]].product].category
                           = db.products[product].category})

BoostStated(user, product) ==
    (IF \E i \in DOMAIN db.wishlist_products :
            /\ db.wishlist_products[i].user = user
            /\ db.wishlist_products[i].product = product
     THEN 25 ELSE 0)
    + (IF \E i \in DOMAIN db.cart_items :
              /\ db.cart_items[i].user = user
              /\ db.cart_items[i].product = product
       THEN 20 ELSE 0)
    + (IF PriorPurchases(user, product) >= 3 THEN 15
       ELSE IF PriorPurchases(user, product) >= 1 THEN 10
       ELSE 0)

\* the score of the product in the list an anonymous call returns on the
\* same tables, in hundredths; 0 when it is not in the list
AnonymousScore(product) ==
    LET list == RecommendedProducts(db, analysis.rules, NoUser, NoCategory,
                                    Cardinality(ProductIds(db)), hash_seed)
        at == {i \in DOMAIN list : list[i].product = product}
    IN  IF at = {} THEN 0 ELSE list[CHOOSE i \in at : TRUE].score

\* C10: the score of a product in the list of a personalized call is its
\* rule-matching (anonymous) score plus the boost: 25 when the product is in
\* the user's wishlist, plus 20 when it is in the user's cart, plus 15 when
\* the user has 3 or more prior purchases in the product's category, 10 when
\* the user has 1 or 2.
BoostAdded ==
    (last_call.kind = "recommended" /\ last_call.user # NoUser)
        => \A i \in DOMAIN recommended :
               recommended[i].score
                   = AnonymousScore(recommended[i].product)
                     + 100 * BoostStated(last_call.user, recommended[i].product)

\* C10 over the orders that are purchases: the same, for the products in
\* whose category every order of the user is completed, paid or shipped
BoostAddedOnPurchases ==
    (last_call.kind = "recommended" /\ last_call.user # NoUser)
        => \A i \in DOMAIN recommended :
               (\A o \in DOMAIN db.orders :
                    (/\ db.orders[o].user = last_call.user
                     /\ \E j \in DOMAIN db.orders[o].items :
                            db.products[db.orders[o].items[j].product].category
                                = db.products[recommended[i].product].category)
                        => db.orders[o].status \in {"completed", "paid", "shipped"})
               => recommended[i].score
                      = AnonymousScore(recommended[i].product)
                        + 100 * BoostStated(last_call.user, recommended[i].product)

\* the product in the user's wishlist and cart, with 4 purchases in its
\* category, is listed 60 above its anonymous score
WitnessBoostSixty ==
    /\ last_call.kind = "recommended"
    /\ last_call.user = "ada"
    /\ recommended # <<>>
    /\ recommended[1].product = 1
    /\ PriorPurchases("ada", 1) = 4
    /\ BoostStated("ada", 1) = 60
    /\ recommended[1].score = AnonymousScore(1) + 6000

----------------------------------------------------------------------------
(* Properties of the scoring *)

\* the boosts of get_recommended_products for a product, the personalization
\* boost of the user of the call with them
BoostsStated(product) ==
    LET row == db.products[product]
        sales == SalesOf(product)
    IN  (IF sales >= 10 THEN 30 ELSE IF sales >= 5 THEN 20 ELSE 0)
        + (IF row.stock >= 20 THEN 15 ELSE 0)
        + (IF row.price >= 500000 THEN 10 ELSE 0)
        + (IF last_call.user # NoUser
           THEN CalculateUserPersonalizationBoost(db, last_call.user, product)
           ELSE 0)

\* C11: when mining yields no rules, get_recommended_products does not raise
\* and scores the in-stock candidates by the boosts alone: every record has
\* the sales, stock and price boosts of its product (and the personalization
\* boost when a user is given) as its score, with matching_rules_count 0,
\* and every in-stock product with a boost is listed.
HeuristicOnly ==
    (last_call.kind = "recommended" /\ analysis.rules = <<>> /\ failing = {})
        => /\ ~raised
           /\ \A i \in DOMAIN recommended :
                  /\ recommended[i].score = 100 * BoostsStated(recommended[i].product)
                  /\ recommended[i].matching_rules_count = 0
           /\ \A product \in ProductIds(db) :
                  (db.products[product].stock > 0 /\ BoostsStated(product) > 0)
                      => \E i \in DOMAIN recommended :
                             recommended[i].product = product

\* a personalized call on no rules has listed the product of 6000.00 with 25
\* in stock and 12 sales at 30 + 15 + 10 and the boost of its buyer
WitnessHeuristicOnly ==
    /\ last_call.kind = "recommended"
    /\ last_call.user = "bob"
    /\ analysis.outcome # "not_run"
    /\ analysis.rules = <<>>
    /\ Len(all_transactions) > 0
    /\ Len(recommended) = 1
    /\ SalesOf(1) = 12
    /\ recommended[1].score = 7000
    /\ recommended[1].matching_rules_count = 0


----------------------------------------------------------------------------
(* Properties of the returned lists *)

\* C12: a list that get_recommended_products returns has at most  limit
\* records, on the fallback path too
ResultLength ==
    last_call.kind = "recommended" => Len(recommended) <= last_call.limit

\* the sample list served for limit = 2: three records
WitnessResultOverLimit ==
    /\ last_call.kind = "recommended" /\ last_call.limit = 2
    /\ failing = {"products"}
    /\ Len(recommended) = 3
    /\ \A i \in DOMAIN recommended : recommended[i].score = SampleScore

\* the try block of get_recommended_products has returned
BodyReturned ==
    /\ last_call.kind = "recommended"
    /\ failing \cap {"products", "attributes.sold", "total_sold"} = {}

\* the whole ranking of the call served last
Ranked ==
    RecommendedProducts(db, analysis.rules, last_call.user, last_call.category,
                        Cardinality(ProductIds(db)), hash_seed)

NeverEmpty ==
    last_call.kind = "recommended" => recommended # <<>>

\* the only product is sold out, and the list is empty
WitnessEmptyPage ==
    /\ last_call.kind = "recommended" /\ failing = {} /\ ~raised
    /\ ProductIds(db) = {1} /\ db.products[1].stock = 0
    /\ recommended = <<>>

----------------------------------------------------------------------------
(* Properties of the calls while queries fail *)

\* C15: whichever queries fail, run_product_recommendation_analysis,
\* get_recommended_products and get_personalized_recommendations return a
\* list and let no exception out
NoFailureIsFatal ==
    last_call.kind \in {"analysis", "recommended", "personalized"}
        => /\ ~raised
           /\ DOMAIN recommended = 1..Len(recommended)
           /\ DOMAIN analysis.rules = 1..Len(analysis.rules)

\* every query fails, and get_personalized_recommendations returns the
\* record without a product
WitnessNoFailureIsFatal ==
    /\ failing = Queries /\ last_call.kind = "personalized" /\ ~raised
    /\ recommended = <<SampleRecord(NoProduct, PlaceholderSold, PlaceholderStock)>>
    /\ all_transactions = SampleTransactions

----------------------------------------------------------------------------
(* Properties of the rules *)

QualityTags ==
    {"Best_Seller", "Popular_Item", "Tech_Product", "Fashion_Product",
     "Home_Product", "Premium_Product", "Budget_Product"}

\* a product token, a category token or a quality tag
Actionable(token) ==
    \/ token \in QualityTags
    \/ \E prefix \in {"Product_", "Category_"} :
           StartsWith(token, prefix)

\* C16: the consequent of every rule of the run has an actionable token
ActionableConsequents ==
    \A j \in DOMAIN analysis.rules :
        \E token \in Range(analysis.rules[j].consequent) : Actionable(token)

\* a rule of the run whose consequent is one token about the user's
\* categories
WitnessContextualConsequent ==
    \E j \in DOMAIN analysis.rules :
        \E token \in {"User_Category_Electronics", "Purchased_Category_Electronics",
                       "Purchased_Category_Home_Decor"} :
            Range(analysis.rules[j].consequent) = {token}

\* the rules are in descending order of confidence, and rules of one
\* confidence in descending order of support
RulesOrdered ==
    \A i, j \in DOMAIN analysis.rules :
        i < j => \/ analysis.rules[i].confidence > analysis.rules[j].confidence
                 \/ /\ analysis.rules[i].confidence = analysis.rules[j].confidence
                    /\ analysis.rules[i].support >= analysis.rules[j].support

----------------------------------------------------------------------------
(* Properties of the personalized list *)

\* the records of the per-category calls of the call served last
PerCategory ==
    UNION {Range(GetRecommendedProductsCall(db, analysis.rules, last_call.user,
                                            category, CategoryLimit,
                                            hash_seed).value) :
              category \in UserCategories(db, last_call.user)}

\* each product once, with the greatest of its per-category scores, in
\* non-increasing order of score, limit records at most
Aggregated ==
    /\ \A i, j \in DOMAIN recommended :
           i # j => recommended[i].product # recommended[j].product
    /\ \A i \in DOMAIN recommended :
           /\ recommended[i] \in PerCategory
           /\ \A rec \in PerCategory :
                  rec.product = recommended[i].product
                      => rec.score <= recommended[i].score
    /\ \A i, j \in DOMAIN recommended :
           i < j => recommended[i].score >= recommended[j].score
    /\ Len(recommended) <= last_call.limit

\* C18: the list of get_personalized_recommendations has each product at
\* most once, with the maximum of its per-category scores, in non-increasing
\* order of score, and has at most  limit  records
PersonalizedAggregation ==
    last_call.kind = "personalized" => Aggregated

\* the same, for the calls whose try block returns
PersonalizedAggregationReturned ==
    (/\ last_call.kind = "personalized"
     /\ ~PersonalizedBody(db, analysis.rules, last_call.user, last_call.limit,
                          hash_seed).raised)
        => Aggregated

\* the query of the user's orders and the query of the products fail: the
\* three sample records are served for limit = 2
WitnessPersonalizedOverLimit ==
    /\ last_call.kind = "personalized" /\ last_call.limit = 2
    /\ failing = {"products", "user.orders"}
    /\ Len(recommended) = 3

----------------------------------------------------------------------------
(* Properties of a call while the views write *)

\* C19: every record that get_recommended_products returns is consistent
\* with one count of the product's sales: it has Best_Seller exactly when
\* its total_sold, the count behind the sales boost, is 10 or more, and
\* Popular_Item exactly when its total_sold is 5 to 9
SnapshotIsolation ==
    last_call.kind = "recommended" =>
        \A i \in DOMAIN recommended :
            LET record == recommended[i]
                tokens == Range(record.product_attributes)
            IN  /\ "Best_Seller" \in tokens <=> record.total_sold >= BestSellerSales
                /\ "Popular_Item" \in tokens
                       <=> (/\ record.total_sold >= PopularSales
                            /\ record.total_sold < BestSellerSales)

\* an order placed between the two counts of a call: the record has no
\* Popular_Item and a total_sold of 5
WitnessTornRecord ==
    /\ last_call.kind = "recommended"
    /\ Len(recommended) = 1
    /\ recommended[1].total_sold = 5
    /\ "Popular_Item" \notin Range(recommended[1].product_attributes)
    /\ TotalSold(db, 1) = 5

----------------------------------------------------------------------------
(* Properties of the order history *)

\* the categories of the user's cart and wishlist and of the lines of the
\* user's orders that are completed, paid or shipped
InterestStated(user) ==
    {db.products[db.cart_items[i].product].category :
        i \in {i \in DOMAIN db.cart_items : db.cart_items[i].user = user}}
    \cup {db.products[db.wishlist_products[i].product].category :
              i \in {i \in DOMAIN db.wishlist_products :
                         db.wishlist_products[i].user = user}}
    \cup {db.products[product].category :
              product \in {product \in ProductIds(db) :
                               PriorPurchases(user, product) > 0}}

\* C20: the order history behind personalization is made of the lines of
\* completed, paid and shipped orders only: the products that
\* get_personalized_recommendations lists are of the categories of the
\* user's cart, wishlist and such orders, and the purchase count of the
\* boost counts the lines of such orders
OrderHistoryFilter ==
    /\ last_call.kind = "personalized" =>
           \A i \in DOMAIN recommended :
               db.products[recommended[i].product].category
                   \in InterestStated(last_call.user)
    /\ (last_call.kind \in {"recommended", "personalized"} /\ last_call.user # NoUser) =>
           \A i \in DOMAIN recommended :
               SimilarPurchases(db, last_call.user, recommended[i].product)
                   = PriorPurchases(last_call.user, recommended[i].product)

\* ada's only order is the cancelled one, of a 'Home Decor' product, and
\* get_personalized_recommendations lists that product for her
WitnessCancelledOrderCounts ==
    /\ last_call.kind = "personalized" /\ last_call.user = "ada"
    /\ failing = {} /\ db.cart_items = <<>> /\ db.wishlist_products = <<>>
    /\ \A o \in DOMAIN db.orders :
           db.orders[o].user = "ada" => db.orders[o].status = "cancelled"
    /\ Len(recommended) = 1 /\ recommended[1].product = 2
    /\ SimilarPurchases(db, "ada", 2) = 1 /\ PriorPurchases("ada", 2) = 0

----------------------------------------------------------------------------
(* Properties of the levels *)

\* the itemsets of level k of the run; none when the level was not built
LevelKeys(k) == IF k \in DOMAIN Levels THEN Keys(Levels[k]) ELSE {}

\* the k-element token sets that min_support_count transactions contain
FrequentSets(k) ==
    {I \in KSubsets(TokensOf(all_transactions), k) :
        SupportOf(I) >= analysis.min_support_count}

\* C21: with min_support_count >= 1, level k of the run is exactly the set
\* of the k-element token sets whose support count is min_support_count or
\* more, for k = 1 .. max_itemset_length, and there is no level above
\* max_itemset_length
AprioriCompleteness ==
    (analysis.outcome \in {"mined", "no_frequent"} /\ analysis.min_support_count >= 1)
        => /\ \A k \in 1..MaxItemsetLength : LevelKeys(k) = FrequentSets(k)
           /\ Len(Levels) <= MaxItemsetLength

\* a run with three levels, four itemsets in the third, on transactions in
\* which a set of four tokens is frequent too
WitnessAprioriCompleteness ==
    /\ analysis.outcome = "mined" /\ analysis.min_support_count >= 1
    /\ Len(Levels) = MaxItemsetLength
    /\ Cardinality(LevelKeys(MaxItemsetLength)) = 4
    /\ FrequentSets(MaxItemsetLength + 1) # {}

----------------------------------------------------------------------------
(* Properties of the transactions while queries fail *)

\* the queries that build the transactions
TransactionQueries ==
    {"transactions.carts", "transactions.wishlists", "transactions.orders",
     "cooccurrence", "attributes.products"}

\* C22: when a query that builds the transactions fails, the call does not
\* abort and the transactions that are mined are the fixed sample
\* transactions, not a list built in part
FallbackTransactions ==
    (last_call.kind # "none" /\ failing \cap TransactionQueries # {})
        => /\ ~raised
           /\ all_transactions = SampleTransactions

\* the co-occurrence queries fail: the transactions of the cart, of the
\* order and of the product attributes are mined, without the sample ones
WitnessPartialTransactions ==
    /\ last_call.kind = "analysis" /\ failing = {"cooccurrence"} /\ ~raised
    /\ Len(all_transactions) = 3
    /\ all_transactions[1] = <<"Product_1", "Category_Electronics", "User_Has_Profile">>
    /\ \A i \in DOMAIN all_transactions :
           \A j \in DOMAIN SampleTransactions :
               all_transactions[i] # SampleTransactions[j]

----------------------------------------------------------------------------
(* Properties of the reasons *)

\* the reason texts of the boosts that the record's sales and stock trigger
BoostReasonsStated(record) ==
    (IF record.total_sold >= 10 THEN {"Best-selling product"}
     ELSE IF record.total_sold >= 5 THEN {"Popular item"}
     ELSE {})
    \cup (IF record.in_stock >= 20 THEN {"High availability"} ELSE {})

\* C23: the reason text of every boost that get_recommended_products
\* applies to a product is among the recommendation_reasons of its record,
\* whatever the number of matching rules
BoostReasons ==
    (last_call.kind = "recommended" /\ failing = {}) =>
        \A i \in DOMAIN recommended :
            BoostReasonsStated(recommended[i])
                \subseteq Range(recommended[i].recommendation_reasons)

\* a best seller with 20 or more in stock whose five reasons are all
\* reasons of rules
WitnessBoostReasonCut ==
    /\ last_call.kind = "recommended" /\ failing = {}
    /\ Len(recommended) = 1
    /\ recommended[1].total_sold >= 10 /\ recommended[1].in_stock >= 20
    /\ Len(recommended[1].recommendation_reasons) = 5
    /\ Range(recommended[1].recommendation_reasons)
           \cap {"Best-selling product", "High availability"} = {}

\* the reasons of the rules of the run that match the record, one for each
\* matching rule, in the order of the rules
ProducedReasons(record) ==
    LET rules == analysis.rules
        attributes == Range(record.product_attributes)
        tokens == UNION {Range(rules[j].antecedent) \cup Range(rules[j].consequent) :
                            j \in DOMAIN rules}
        format == [t \in tokens |-> FormatAttribute(t)]
        matching == SelectSeq(rules, LAMBDA rule :
                                         Range(rule.consequent) \cap attributes # {})
    IN  [j \in DOMAIN matching |->
            FormatProductRecommendationReason(matching[j], attributes, format)]

\* C24: a record has 5 reasons at most, no reason twice, and its reasons
\* are the first that were produced, each at its first place, in the order
\* in which the matching rules were visited
ReasonsCapped ==
    (last_call.kind = "recommended" /\ failing = {}) =>
        \A i \in DOMAIN recommended :
            LET kept == recommended[i].recommendation_reasons
                produced == FirstOccurrences(ProducedReasons(recommended[i]))
                boosts == Cardinality(BoostReasonsStated(recommended[i]))
            IN  /\ Len(kept) <= 5
                /\ \A m, n \in DOMAIN kept : m # n => kept[m] # kept[n]
                /\ Len(kept) = (IF Len(produced) + boosts < 5
                                THEN Len(produced) + boosts ELSE 5)
                /\ \A n \in DOMAIN kept :
                       n <= Len(produced) => kept[n] = produced[n]

\* a record of five reasons, where the rules gave more than five and gave
\* one of them twice
WitnessReasonsCapped ==
    /\ last_call.kind = "recommended" /\ failing = {}
    /\ Len(recommended) = 1
    /\ Len(recommended[1].recommendation_reasons) = 5
    /\ LET produced == ProducedReasons(recommended[1])
       IN  /\ Len(FirstOccurrences(produced)) > 5
           /\ Len(FirstOccurrences(produced)) < Len(produced)

----------------------------------------------------------------------------
(* Properties of the listed products *)

\* no rule of the run has a token of the product's attributes in its
\* consequent, and no boost applies to the product
NoSignal(product) ==
    /\ \A j \in DOMAIN analysis.rules :
           Range(analysis.rules[j].consequent)
               \cap GetProductAttributes(db, product) = {}
    /\ BoostsStated(product) = 0

\* C25: when the try block of get_recommended_products returns, every
\* record has a score above 0 and a product in stock, of the requested
\* category when one is given, and a product in stock that no rule matches
\* and no boost applies to is not listed
PositiveScoresOnly ==
    BodyReturned =>
        /\ \A i \in DOMAIN recommended :
               /\ recommended[i].score > 0
               /\ db.products[recommended[i].product].stock > 0
               /\ last_call.category # NoCategory =>
                      db.products[recommended[i].product].category
                          = last_call.category
        /\ \A product \in ProductIds(db) :
               (db.products[product].stock > 0 /\ NoSignal(product))
                   => \A i \in DOMAIN recommended :
                          recommended[i].product # product

\* the call for 'Books': the two titles in stock are listed and the one
\* that is sold out is not; the call for 'Stationery' would list nothing
WitnessPositiveScoresOnly ==
    /\ BodyReturned /\ failing = {} /\ last_call.category = "Books"
    /\ {recommended[i].product : i \in DOMAIN recommended} = {2, 3}
    /\ db.products[4].category = "Books" /\ db.products[4].stock = 0
    /\ db.products[5].stock > 0 /\ NoSignal(5)

----------------------------------------------------------------------------
(* Properties of the purchase transactions *)

ValueTiers == {"High_Value_Purchase", "Medium_Value_Purchase", "Low_Value_Purchase"}

TierStated(total_amount) ==
    IF total_amount >= 1000000 THEN "High_Value_Purchase"
    ELSE IF total_amount >= 500000 THEN "Medium_Value_Purchase"
    ELSE "Low_Value_Purchase"

\* the orders that are completed, paid or shipped and have a line with a
\* product, in row order
PurchaseOrders ==
    SelectSeq(db.orders,
              LAMBDA order :
                  /\ order.status \in {"completed", "paid", "shipped"}
                  /\ \E i \in DOMAIN order.items : order.items[i].product # NoProduct)

\* the value-tier tokens of the transactions, transaction by transaction
TiersMined ==
    LET tiered == SelectSeq(all_transactions,
                            LAMBDA transaction : Range(transaction) \cap ValueTiers # {})
    IN  [i \in DOMAIN tiered |->
            SelectSeq(tiered[i], LAMBDA token : token \in ValueTiers)]

\* C26: there is one purchase transaction for each order that is completed,
\* paid or shipped and has a line with a product, and none for another
\* order; it has exactly one value-tier token, High_Value_Purchase for a
\* total of 10000 or more, Medium_Value_Purchase for 5000 or more,
\* Low_Value_Purchase below
PurchaseTransactionsStated ==
    (last_call.kind = "analysis" /\ failing = {}) =>
        TiersMined = [i \in DOMAIN PurchaseOrders |->
                         <<TierStated(PurchaseOrders[i].total_amount)>>]

\* a shipped order of 5000.00 with a line whose product is gone and one
\* whose product is there: one transaction, of the medium tier
WitnessPurchaseTransaction ==
    /\ last_call.kind = "analysis" /\ failing = {}
    /\ Len(db.orders) = 1 /\ db.orders[1].status = "shipped"
    /\ db.orders[1].total_amount = 500000
    /\ Len(db.orders[1].items) = 2
    /\ all_transactions[1] = <<"Product_1", "Category_Electronics",
                               "Purchased_Product", "Medium_Value_Purchase">>

-----------------------------------------------------------------------------
(* Properties of the two places that name a product's attributes *)

PriceBandTokens ==
    {"Price_High", "Price_Medium_High", "Price_Medium", "Price_Low_Medium",
     "Price_Low"}

\* the transactions of the product-attribute stream among the transactions
\* mined: those that carry a price band
AttributeTransactionsMined ==
    SelectSeq(all_transactions,
              LAMBDA transaction : Range(transaction) \cap PriceBandTokens # {})

\* C27: for the same catalog state, every product with at least one sale has
\* exactly one transaction in the product-attribute stream, and the set of
\* its tokens is the attribute set _get_product_attributes computes for the
\* product
AttributeVocabularyAgreement ==
    (last_call.kind = "analysis" /\ failing = {}) =>
        \A product \in ProductIds(db) :
            LET mined == SelectSeq(AttributeTransactionsMined,
                                   LAMBDA transaction :
                                       transaction[1] = ProductToken(product))
            IN  IF SalesOf(product) > 0
                THEN /\ Len(mined) = 1
                     /\ Range(mined[1]) = GetProductAttributes(db, product)
                ELSE mined = <<>>

\* the product of the category "Home Decor" with 12 sales: the one
\* transaction of the attribute stream names its attributes
WitnessAttributeVocabulary ==
    /\ last_call.kind = "analysis" /\ failing = {}
    /\ db = CatalogOf("Home Decor", 600000, 25, 12)
    /\ AttributeTransactionsMined =
           << <<"Product_1", "Category_Home_Decor", "Price_High",
                "Premium_Product", "High_Stock", "Best_Seller", "High_Demand",
                "Home_Product">> >>
    /\ GetProductAttributes(db, 1) = Range(AttributeTransactionsMined[1])

-----------------------------------------------------------------------------
(* Properties of place_order *)

\* the cart line is a line of the order, same product and quantity
Recorded(line, order) ==
    \E k \in DOMAIN order.items :
        /\ order.items[k].product = line.product
        /\ order.items[k].quantity = line.quantity

\* C28: a cart line leaves the cart only in place_order and only when the
\* order place_order has created has a line of the same product and
\* quantity, also when add_to_cart of the same user is served in between;
\* and the place_order that read an empty cart changes no table
PlaceOrderLosesNoLine ==
    [][/\ \A i \in DOMAIN db.cart_items :
              LET line == db.cart_items[i]
              IN  (\A j \in DOMAIN db'.cart_items :
                       \/ db'.cart_items[j].user # line.user
                       \/ db'.cart_items[j].product # line.product)
                  => /\ running # Idle
                     /\ running.at = "place_order.delete"
                     /\ Recorded(line, db.orders[running.order])
       /\ (/\ running # Idle
           /\ running.at = "place_order.items"
           /\ running.items = <<>>
           /\ running' # running) => db' = db]_vars

\* place_order has created the order of the rows it read and is about to
\* delete a row of the cart that is no line of the order
WitnessLineAddedWhileOrdering ==
    /\ running # Idle
    /\ running.at = "place_order.delete"
    /\ \E i \in DOMAIN db.cart_items :
           /\ db.cart_items[i].user = running.user
           /\ ~Recorded(db.cart_items[i], db.orders[running.order])

====
